---------------------------- MODULE Spec2Model ----------------------------
(***************************************************************************)
(* Model of the two-stage product-matching pipeline of                     *)
(* products_matching_demo:                                                 *)
(*   - product_scraper.py : fetch_products_for_momo / _for_pchome          *)
(*   - matcher_app.py     : calculate_similarities_in_memory,              *)
(*                          gemini_verify_batch, show_comparison_dialog,   *)
(*                          quicksort_by_price                             *)
(*   - similarity_calculator.py : calculate_similarities_for_all           *)
(*                                                                         *)
(* Strings of the program are abstracted: a sku is a natural number with   *)
(* 0 for the empty string, a url is a tuple (<<>> for None / ""), a price  *)
(* is an integer with NaN for a missing / not-a-number price, a cosine     *)
(* similarity is an integer in millionths.                                 *)
(***************************************************************************)
EXTENDS Integers, Sequences, FiniteSets, TLC

VARIABLES
    \* ---- one scrape run (product_scraper.py) ----
    platform,                 \* "momo" | "pchome" : which fetch_products_for_* runs
    max_products,             \* argument max_products
    cancel_flag,              \* cancel_flag['value'] read by is_cancelled()
    pc,                       \* position of the scrape function
    products,                 \* products
    seen_skus,                \* seen_skus
    product_id,               \* product_id
    page,                     \* page
    consecutive_empty_pages,  \* consecutive_empty_pages
    n_elements,               \* len(product_elements) of the current page
    elem_i,                   \* number of elements of the page the for loop has consumed
    page_products_count,      \* page_products_count
    consecutive_duplicates,   \* consecutive_duplicates
    driver,                   \* what the variable driver refers to: "none" | "open" | "dead" (a session already quit) | "quit"
    result,                   \* the returned list (meaningful when pc = "done")
    \* ---- observation of the run (history) ----
    requests,                 \* page requests sent to the storefront, in order
    last_check,               \* outcome of the loop-top cancel check since the last request
    cancel_observed,          \* some cancel check has returned True
    elemCancel,               \* snapshot taken when the element-level check returned True
    pageCancel,               \* snapshot taken when the loop-top check returned True
    parsed_after_cancel,      \* an element was parsed after an element-level check saw the flag set
    empty_search,             \* page 1 ended with < 10 raw elements and no new record
    page_failure,             \* snapshot taken when a page could not be loaded or held no listing element
    live_sessions,            \* browser sessions created and not yet torn down
    progress,                 \* what the progress callback has been told so far
    empty_run,                \* pages in a row, up to the last one processed, that gave no new record
    total_available,          \* momo: the total-available count read on the page being opened
    \* ---- similarity matcher ----
    momo_df, pchome_df,       \* the two product sets (ids in row order)
    cos,                      \* cosine similarity of (momo row, pchome row), millionths
    direction,                \* match direction
    similarities,             \* st.session_state.similarities
    sim_pc,
    momo_texts, pchome_texts, \* the texts handed to the embedding model
    \* ---- comparison dialog / verdict aggregator ----
    stage1_matches_list,      \* candidates of the selected source product
    candidates_to_verify,
    all_pairs,                \* the batch handed to gemini_verify_batch
    truncation_warned,        \* st.warning about the cap was shown
    all_results,              \* value returned by gemini_verify_batch
    used_fallback,            \* gemini_verify_batch took a fallback return
    response,                 \* what the judgment service answered
    verified_results,         \* after zip(...)
    ranked_results,           \* after quicksort_by_price
    dlg_pc,
    \* ---- result ranker as a pure function ----
    rank_in, rank_out, rank_pc,
    \* ---- handle_product_search: two worker threads and the supervising loop ----
    cancel_search,            \* st.session_state.cancel_search
    worker,                   \* position of fetch_momo / fetch_pchome, per platform
    reported,                 \* progress messages each worker has put so far
    queue,                    \* momo_queue / pchome_queue
    results,                  \* results['momo'], results['pchome']
    done,                     \* momo_done / pchome_done
    sup_pc,                   \* position of the supervising loop
    consumed,                 \* the messages the supervising loop has taken, per platform
    \* ---- the retry loop around driver.get(search_url) ----
    retry_count,              \* retry_count
    load_ok,                  \* page_loaded
    load_pc,                  \* "idle" | "loop" | "loaded" | "given_up" | "raised"
    load_errors,              \* the error of every failed attempt, in order
    load_gets,                \* driver.get calls made
    load_sessions,            \* browser sessions created in place of an invalid one
    \* ---- st.session_state across searches ----
    session_momo_df,          \* st.session_state.momo_df: the search that produced it
    session_pchome_df,        \* st.session_state.pchome_df: the search that produced it
    session_similarities,     \* st.session_state.similarities: what it was computed from
    match_direction,          \* st.session_state.match_direction
    search_count,             \* searches submitted so far
    \* ---- the image and price fields of one listing element ----
    fld_site,                 \* the scraper that parses the element
    fld_task,                 \* "image" | "price": the field followed
    fld_pc,                   \* "idle" | "element" | "done"
    fld_found,                \* what each of img_selectors finds, in order
    fld_attr,                 \* the data-image attribute of the element itself
    fld_image_url,            \* image_url
    fld_url,                  \* url
    fld_price_texts,          \* the texts of the price elements, in order
    fld_lines,                \* the other lines of the element's text
    fld_sale,                 \* the text of the salePrice element
    fld_prices,               \* potential_prices / prices
    fld_installment_prices,   \* installment_prices
    fld_price,                \* price
    fld_titles,               \* what each of title_selectors finds, in order
    fld_title,                \* title
    \* ---- search_logs.json and stage2_performance.json ----
    log_file,                 \* search_logs.json
    log_holder,               \* per lock object: the thread that holds it, 0 for none
    log_pc,                   \* position of each log_search_query call
    log_logs,                 \* the local variable logs of each call
    log_failed,               \* a call has met an I/O error or a file that is no list
    log_initial,              \* search_logs.json before the calls
    perf_file,                \* stage2_performance.json
    perf_pc,                  \* "idle" | "log" | "rank" | "shown" | "propagated"
    perf_failed               \* the performance log met a failure

scrapeVars == <<platform, max_products, cancel_flag, pc, products, seen_skus,
                product_id, page, consecutive_empty_pages, n_elements, elem_i,
                page_products_count, consecutive_duplicates, driver, result,
                requests, last_check, cancel_observed, elemCancel, pageCancel,
                parsed_after_cancel, empty_search, page_failure, live_sessions, progress, empty_run, total_available>>
simVars == <<momo_df, pchome_df, cos, direction, similarities, sim_pc,
            momo_texts, pchome_texts>>
dlgVars == <<stage1_matches_list, candidates_to_verify, all_pairs, truncation_warned,
             all_results, used_fallback, response, verified_results,
             ranked_results, dlg_pc>>
rankVars == <<rank_in, rank_out, rank_pc>>
searchVars == <<cancel_search, worker, reported, queue, results, done, sup_pc,
               consumed>>
loadVars == <<retry_count, load_ok, load_pc, load_errors, load_gets, load_sessions>>
sessVars == <<session_momo_df, session_pchome_df, session_similarities,
             match_direction, search_count>>
fieldVars == <<fld_site, fld_task, fld_pc, fld_found, fld_attr, fld_image_url, fld_url,
              fld_price_texts, fld_lines, fld_sale, fld_prices,
              fld_installment_prices, fld_price, fld_titles, fld_title>>
logVars == <<log_file, log_holder, log_pc, log_logs, log_failed, log_initial,
            perf_file, perf_pc, perf_failed>>
vars == <<scrapeVars, simVars, dlgVars, rankVars, searchVars, loadVars, sessVars, fieldVars, logVars>>

-----------------------------------------------------------------------------
(* Bounds of the model *)
MaxProducts == 2     \* largest max_products tried
MaxElems == 11       \* most raw listing elements on one page
MaxSku == 2          \* distinct non-empty skus
MaxUrl == 1          \* distinct product links
MaxImg == 1          \* distinct image urls (PChome)
MaxTotal == 2        \* largest "total results" figure shown by momo
MaxRows == 2         \* most products per platform in the similarity matcher
MaxItems == 4        \* longest list handed to the ranker as a pure function
MaxVaried == 2       \* longest batch whose prices and service answers are all tried
MaxProgress == 2     \* most progress reports one worker puts on its queue
MaxSearches == 4     \* most searches submitted in one browser session
MaxSelectors == 2    \* most image selectors tried on one element
MaxCallers == 2      \* most concurrent log_search_query calls
MaxPriceTexts == 3   \* most price elements of one element
MaxCandidates == 52  \* most candidates of one source product

(* Constants of the program *)
max_consecutive_duplicates == 10
max_retries == 3
MinRawElements == 10
threshold == 739465               \* 0.739465 in millionths
MAX_CANDIDATES_PER_CALL == 50

None == <<>>
NaN == -1                         \* float('nan') as a price
NoPrice == -2                     \* None as a price
Inf == 1000000000                 \* float('inf')
NoValue == [type |-> "none", items |-> <<>>]
NoResponse == [kind |-> "none", text |-> <<>>]
NoSnapshot == [taken |-> FALSE, products |-> <<>>]
NoTotal == -1                     \* no total-available count has been read
Unreadable == -2                  \* the count is absent or its text is not a number
NoProgress == [pages |-> 0, records |-> 0, last |-> 0, monotone |-> TRUE]

-----------------------------------------------------------------------------
(* Helpers *)
Range(s) == {s[i] : i \in DOMAIN s}
Urls(prods) == {prods[i].url : i \in DOMAIN prods}

(* is_cancelled() as called at the top of the page loop *)
PageCancelCheck_Never(flag) == FALSE
PageCancelCheck(flag) == flag

(* is_cancelled() as called at the top of the element loop *)
ElementCancelCheck_Never(flag) == FALSE
ElementCancelCheck(flag) == flag

(* momo: is_duplicate *)
MomoIsDuplicate_SkuOnly(sku, url, seen, prods) == sku # 0 /\ sku \in seen
MomoIsDuplicate(sku, url, seen, prods) ==
    IF sku # 0 /\ sku \in seen THEN TRUE
    ELSE url \in Urls(prods)

(* PChome: is_duplicate *)
PchomeIsDuplicate(sku, url, seen, prods) ==
    IF sku \in seen THEN TRUE
    ELSE url \in Urls(prods)

(* momo: "if title and price > 0 and url" *)
MomoRecordComplete_NoUrl(title, price, url) == title # "" /\ price > 0
MomoRecordComplete(title, price, url) == title # "" /\ price > 0 /\ url # None

(* PChome: "if title and price > 0 and url and sku" *)
PchomeRecordComplete(title, price, url, sku) ==
    title # "" /\ price > 0 /\ url # None /\ sku # 0

(* the guard of the inner loop: enough products collected *)
EnoughProducts_Off(prods, maxp) == FALSE
EnoughProducts(prods, maxp) == Len(prods) >= maxp

(* What one momo listing element parses to.  kind "empty": element text    *)
(* shorter than 5; "raise": an exception inside the element's try block.    *)
MomoElements ==
    [kind : {"empty", "raise"}, title : {""}, price : {0}, url : {None}, sku : {0}]
    \cup
    [kind : {"parsed"}, title : {""}, price : {0, 500}, url : {None}, sku : {0}]
    \cup
    [kind : {"parsed"}, title : {"T"}, price : {0}, url : {None}, sku : {0}]
    \cup
    [kind : {"parsed"}, title : {"T"}, price : {500},
     url : {None} \cup {<<"momo", u>> : u \in 1..MaxUrl}, sku : 0..MaxSku]

(* What one PChome listing element offers.  prod = 0: the href has no       *)
(* /prod/<sku> part;                                                        *)
(* img: 0 no <img> found by any selector, -1 an <img> found but none of its *)
(* attributes is a usable url and the last one read is None, -2 the same    *)
(* but the last one read is a non-empty unusable string, k > 0 the k-th     *)
(* image url.                                                               *)
(* kind "nosuch": NoSuchElementException / ValueError, "raise": any other   *)
(* exception raised while the element is parsed.                            *)
PchomeElements ==
    [kind : {"nosuch", "raise"}, prod : {0}, title : {""}, price : {0}, img : {0}]
    \cup
    [kind : {"parsed"}, prod : {0}, title : {""}, price : {0, 500}, img : {0}]
    \cup
    [kind : {"parsed"}, prod : {0}, title : {"T"}, price : {0}, img : {0}]
    \cup
    [kind : {"parsed"}, prod : 0..MaxSku, title : {"T"}, price : {500},
     img : -2..MaxImg]

(* PChome: the value of the variable url when the record is built.  The     *)
(* image loop "for url in potential_urls" rebinds the variable that held    *)
(* the product link.                                                        *)
PchomeUrlAfterImageLoop(e) ==
    IF e.img = 0 THEN <<"href", e.prod>>
    ELSE IF e.img = -1 THEN None
    ELSE IF e.img = -2 THEN <<"junk">>
    ELSE <<"img", e.img>>

(* The numbers of raw listing elements a page is tried with: none, fewer   *)
(* than the early-stop floor, the floor itself, the most.                   *)
ElementCounts == {0, 2, MinRawElements, MaxElems}

-----------------------------------------------------------------------------
(* Idle values of the components a specification does not exercise *)
ScrapeIdle ==
    /\ platform = "momo" /\ max_products = 1 /\ cancel_flag = FALSE
    /\ pc = "idle" /\ products = <<>> /\ seen_skus = {} /\ product_id = 1
    /\ page = 1 /\ consecutive_empty_pages = 0 /\ n_elements = 0 /\ elem_i = 0
    /\ page_products_count = 0 /\ consecutive_duplicates = 0
    /\ driver = "none" /\ result = <<>>
    /\ requests = <<>> /\ last_check = "none" /\ cancel_observed = FALSE
    /\ elemCancel = NoSnapshot /\ pageCancel = NoSnapshot
    /\ parsed_after_cancel = FALSE /\ empty_search = FALSE
    /\ total_available = NoTotal
    /\ empty_run = 0
    /\ progress = NoProgress
    /\ live_sessions = 0
    /\ page_failure = NoSnapshot

SimIdle ==
    /\ momo_df = <<>> /\ pchome_df = <<>> /\ cos = <<>>
    /\ direction = "momo_to_pchome" /\ similarities = <<>> /\ sim_pc = "idle"
    /\ momo_texts = <<>> /\ pchome_texts = <<>>

DlgIdle ==
    /\ stage1_matches_list = <<>> /\ candidates_to_verify = <<>> /\ all_pairs = <<>>
    /\ truncation_warned = FALSE /\ all_results = NoValue /\ used_fallback = FALSE
    /\ response = NoResponse /\ verified_results = <<>>
    /\ ranked_results = <<>> /\ dlg_pc = "idle"

RankIdle == rank_in = <<>> /\ rank_out = <<>> /\ rank_pc = "idle"

Platforms == {"momo", "pchome"}

SearchIdle ==
    /\ cancel_search = FALSE
    /\ worker = [p \in Platforms |-> "idle"]
    /\ reported = [p \in Platforms |-> 0]
    /\ queue = [p \in Platforms |-> <<>>]
    /\ results = [p \in Platforms |-> "None"]
    /\ done = [p \in Platforms |-> FALSE]
    /\ sup_pc = "idle"
    /\ consumed = [p \in Platforms |-> <<>>]

EmptyFrame == -1                  \* pd.DataFrame()
SampleData == 0                   \* the product sets read by load_local_data
EmptyMap == [computed |-> FALSE, momo |-> EmptyFrame, pchome |-> EmptyFrame,
             direction |-> "momo_to_pchome"]

SessIdle ==
    /\ session_momo_df = EmptyFrame /\ session_pchome_df = EmptyFrame
    /\ session_similarities = EmptyMap
    /\ match_direction = "momo_to_pchome" /\ search_count = 0

FieldIdle ==
    /\ fld_site = "momo" /\ fld_task = "idle" /\ fld_pc = "idle"
    /\ fld_found = <<>> /\ fld_attr = <<>> /\ fld_image_url = <<>> /\ fld_url = <<>>
    /\ fld_price_texts = <<>> /\ fld_lines = <<>> /\ fld_sale = <<>>
    /\ fld_prices = <<>> /\ fld_installment_prices = <<>> /\ fld_price = 0
    /\ fld_titles = <<>> /\ fld_title = <<>>

MissingFile == [kind |-> "missing", entries |-> <<>>]
NoLogs == [islist |-> TRUE, items |-> <<>>]

LogIdle ==
    /\ log_file = MissingFile /\ log_holder = <<>>
    /\ log_pc = <<>> /\ log_logs = <<>>
    /\ log_failed = FALSE /\ log_initial = MissingFile
    /\ perf_file = MissingFile /\ perf_pc = "idle" /\ perf_failed = FALSE

LoadIdle ==
    /\ retry_count = 0 /\ load_ok = FALSE /\ load_pc = "idle"
    /\ load_errors = <<>> /\ load_gets = 0 /\ load_sessions = 0

-----------------------------------------------------------------------------
(* The scrape run: fetch_products_for_momo / fetch_products_for_pchome *)

ScrapeInit ==
    /\ platform \in {"momo", "pchome"}
    /\ max_products \in 1..MaxProducts
    /\ cancel_flag = FALSE
    /\ pc = "init"
    /\ products = <<>> /\ seen_skus = {} /\ product_id = 1
    /\ page = 1 /\ consecutive_empty_pages = 0 /\ n_elements = 0 /\ elem_i = 0
    /\ page_products_count = 0 /\ consecutive_duplicates = 0
    /\ driver = "none" /\ result = <<>>
    /\ requests = <<>> /\ last_check = "none" /\ cancel_observed = FALSE
    /\ elemCancel = NoSnapshot /\ pageCancel = NoSnapshot
    /\ parsed_after_cancel = FALSE /\ empty_search = FALSE
    /\ total_available = NoTotal
    /\ empty_run = 0
    /\ progress = NoProgress
    /\ live_sessions = 0
    /\ page_failure = NoSnapshot
    /\ SimIdle /\ DlgIdle /\ RankIdle /\ SearchIdle /\ LoadIdle /\ SessIdle /\ FieldIdle /\ LogIdle

(* progress_callback(current, total, message): kind "page" is the report at *)
(* the top of a page, "record" the report after an append, "start" and      *)
(* "end" the first and the last report of a run                             *)
Report(p, kind, current) ==
    [pages |-> p.pages + (IF kind = "page" THEN 1 ELSE 0),
     records |-> p.records + (IF kind = "record" THEN 1 ELSE 0),
     last |-> current,
     monotone |-> p.monotone /\ current >= p.last]

(* the value of current in the report at the top of a page *)
PageCurrent_Zero(prods) == 0
PageCurrent(prods) == Len(prods)

(* the session check at the head of a page load: the session is valid, or  *)
(* it is invalid and a new browser is started in its place, or it is        *)
(* invalid and the new browser cannot be started                            *)
SessionChecks == {"valid", "replaced", "replace_failed"}

(* driver.quit() on the session the variable driver refers to: "finally: if *)
(* driver: driver.quit()", and the quit that precedes a replacement         *)
Teardown_Skip(d, live) == live
Teardown(d, live) == IF d = "open" THEN live - 1 ELSE live

(* the variable driver after the finally block *)
AfterFinally(d) == IF d = "open" THEN "quit" ELSE d

(* live sessions after the session check: a replacement quits the old       *)
(* browser and starts a new one                                             *)
Replaced(session, d, live) ==
    IF session = "replaced" THEN Teardown(d, live) + 1 ELSE live

Snapshot == [taken |-> TRUE, products |-> products]
Request(p) == [page |-> p, check |-> last_check, observed |-> cancel_observed]

(* the supervising loop copies the user's cancel request into the flag *)
SetCancel ==
    /\ pc \notin {"idle", "done"}
    /\ cancel_flag = FALSE
    /\ cancel_flag' = TRUE
    /\ UNCHANGED <<platform, max_products, total_available, empty_run, progress, live_sessions, page_failure, pc, products, seen_skus, product_id,
                   page, consecutive_empty_pages, n_elements, elem_i,
                   page_products_count, consecutive_duplicates, driver, result,
                   requests, last_check, cancel_observed, elemCancel, pageCancel,
                   parsed_after_cancel, empty_search>>
    /\ UNCHANGED <<simVars, dlgVars, rankVars, searchVars, loadVars, sessVars, fieldVars, logVars>>

(* driver initialisation and the initial progress report *)
StartDriver ==
    /\ pc = "init"
    /\ \E started \in {"primary", "fallback", "none"} :
          IF started = "none"
          THEN pc' = "except" /\ UNCHANGED <<driver, live_sessions, progress>>
          ELSE /\ driver' = "open"
               /\ live_sessions' = live_sessions + 1
               /\ progress' = Report(progress, "start", 0)
               /\ pc' = IF platform = "momo" THEN "loop" ELSE "initial_load"
    /\ UNCHANGED <<platform, max_products, total_available, empty_run, page_failure, cancel_flag, products, seen_skus,
                   product_id, page, consecutive_empty_pages, n_elements, elem_i,
                   page_products_count, consecutive_duplicates, result,
                   requests, last_check, cancel_observed, elemCancel, pageCancel,
                   parsed_after_cancel, empty_search>>
    /\ UNCHANGED <<simVars, dlgVars, rankVars, searchVars, loadVars, sessVars, fieldVars, logVars>>

(* PChome: the search page is loaded before the page loop; a failed load    *)
(* returns [] *)
PchomeInitialLoad ==
    /\ pc = "initial_load"
    /\ last_check' = "none"
    /\ \E session \in SessionChecks, loaded \in BOOLEAN, in_handler \in BOOLEAN :
          IF session = "replace_failed" THEN
              /\ requests' = IF in_handler THEN Append(requests, Request(page))
                                           ELSE requests
              /\ IF in_handler
                 THEN /\ pc' = "except"
                      /\ driver' = "dead"
                      /\ live_sessions' = Teardown(driver, live_sessions)
                      /\ UNCHANGED <<result, page_failure>>
                 ELSE /\ pc' = "done" /\ result' = <<>>
                      /\ driver' = "dead"
                      /\ live_sessions' = Teardown(driver, live_sessions)
                      /\ page_failure' = Snapshot
          ELSE
              /\ requests' = Append(requests, Request(page))
              /\ IF loaded
                 THEN /\ pc' = "loop"
                      /\ driver' = "open"
                      /\ live_sessions' = Replaced(session, driver, live_sessions)
                      /\ UNCHANGED <<result, page_failure>>
                 ELSE /\ pc' = "done" /\ result' = <<>>
                      /\ driver' = "quit"
                      /\ live_sessions' =
                            Teardown("open", Replaced(session, driver, live_sessions))
                      /\ page_failure' = Snapshot
    /\ UNCHANGED <<platform, max_products, total_available, empty_run, progress, cancel_flag, products, seen_skus,
                   product_id, page, consecutive_empty_pages, n_elements, elem_i,
                   page_products_count, consecutive_duplicates,
                   cancel_observed, elemCancel, pageCancel, parsed_after_cancel, empty_search>>
    /\ UNCHANGED <<simVars, dlgVars, rankVars, searchVars, loadVars, sessVars, fieldVars, logVars>>

(* top of "while len(products) < max_products": the loop guard and the      *)
(* page-level cancel check *)
LoopTop ==
    /\ pc = "loop"
    /\ IF ~(Len(products) < max_products)
       THEN /\ pc' = "finish"
            /\ UNCHANGED <<last_check, cancel_observed, pageCancel, progress>>
       ELSE /\ last_check' = IF cancel_flag THEN "set" ELSE "clear"
            /\ cancel_observed' = (cancel_observed \/ cancel_flag)
            /\ pageCancel' = IF cancel_flag /\ ~pageCancel.taken
                              THEN Snapshot ELSE pageCancel
            /\ IF PageCancelCheck(cancel_flag)
               THEN pc' = "finish" /\ UNCHANGED progress
               ELSE /\ pc' = IF platform = "momo" THEN "load" ELSE "find"
                    /\ progress' = Report(progress, "page", PageCurrent(products))
    /\ UNCHANGED <<platform, max_products, total_available, empty_run, live_sessions, page_failure, cancel_flag, products, seen_skus,
                   product_id, page, consecutive_empty_pages, n_elements, elem_i,
                   page_products_count, consecutive_duplicates, driver, result,
                   requests, elemCancel, parsed_after_cancel, empty_search>>
    /\ UNCHANGED <<simVars, dlgVars, rankVars, searchVars, loadVars, sessVars, fieldVars, logVars>>

(* momo: "if not page_loaded: break" *)
AfterLoad_Continue(page_loaded) == "find"
AfterLoad(page_loaded) == IF page_loaded THEN "find" ELSE "finish"

(* momo: driver.get(search_url) with its retry loop *)
MomoLoadPage ==
    /\ pc = "load" /\ platform = "momo"
    /\ last_check' = "none"
    /\ \E session \in SessionChecks, page_loaded \in BOOLEAN, in_handler \in BOOLEAN :
          IF session = "replace_failed" THEN
              /\ driver' = "dead"
              /\ live_sessions' = Teardown(driver, live_sessions)
              /\ requests' = IF in_handler THEN Append(requests, Request(page))
                                           ELSE requests
              /\ pc' = IF in_handler THEN "except" ELSE AfterLoad(FALSE)
              /\ page_failure' = IF in_handler THEN page_failure ELSE Snapshot
          ELSE
              /\ driver' = "open"
              /\ live_sessions' = Replaced(session, driver, live_sessions)
              /\ requests' = Append(requests, Request(page))
              /\ pc' = AfterLoad(page_loaded)
              /\ page_failure' = IF page_loaded THEN page_failure ELSE Snapshot
    /\ UNCHANGED <<platform, max_products, total_available, empty_run, progress, cancel_flag, products, seen_skus,
                   product_id, page, consecutive_empty_pages, n_elements, elem_i,
                   page_products_count, consecutive_duplicates, result,
                   cancel_observed, elemCancel, pageCancel, parsed_after_cancel, empty_search>>
    /\ UNCHANGED <<simVars, dlgVars, rankVars, searchVars, loadVars, sessVars, fieldVars, logVars>>

(* momo: "if total_available == 0: break" and "if len(products) >=          *)
(* total_available: break"                                                  *)
TotalReached_ZeroOnly(total, collected) == total = 0
TotalReached(total, collected) == total = 0 \/ collected >= total

(* momo: window check and total-count check of the loaded page *)
MomoReadTotal ==
    /\ pc = "find" /\ platform = "momo"
    /\ \E window_ok \in BOOLEAN, raised \in BOOLEAN,
          total \in {Unreadable} \cup (0..MaxTotal) :
          IF ~window_ok THEN
              pc' = "finish" /\ UNCHANGED total_available
          ELSE IF raised THEN
              pc' = "except" /\ UNCHANGED total_available
          ELSE
              /\ total_available' = total
              /\ pc' = IF total # Unreadable /\ TotalReached(total, Len(products))
                       THEN "finish" ELSE "select"
    /\ UNCHANGED <<platform, max_products, empty_run, progress, live_sessions, page_failure,
                   cancel_flag, products, seen_skus, product_id, page,
                   consecutive_empty_pages, n_elements, elem_i, page_products_count,
                   consecutive_duplicates, driver, result, requests, last_check,
                   cancel_observed, elemCancel, pageCancel, parsed_after_cancel,
                   empty_search>>
    /\ UNCHANGED <<simVars, dlgVars, rankVars, searchVars, loadVars, sessVars, fieldVars, logVars>>

(* momo: the selector strategies; the count read above is not used again *)
MomoFindElements ==
    /\ pc = "select" /\ platform = "momo"
    /\ total_available' = NoTotal
    /\ \E raised \in BOOLEAN, n \in ElementCounts :
          IF raised THEN
              pc' = "except" /\ UNCHANGED <<n_elements, elem_i, page_products_count, consecutive_duplicates, empty_search, page_failure>>
          ELSE IF n = 0 THEN
              /\ pc' = "finish"
              /\ empty_search' = (empty_search \/ page = 1)
              /\ page_failure' = Snapshot
              /\ UNCHANGED <<n_elements, elem_i, page_products_count, consecutive_duplicates>>
          ELSE
              /\ pc' = "parse"
              /\ UNCHANGED <<empty_search, page_failure>>
              /\ n_elements' = n /\ elem_i' = 0
              /\ page_products_count' = 0 /\ consecutive_duplicates' = 0
    /\ UNCHANGED <<platform, max_products, empty_run, progress, live_sessions, cancel_flag, products, seen_skus,
                   product_id, page, consecutive_empty_pages, driver, result,
                   requests, last_check, cancel_observed, elemCancel, pageCancel,
                   parsed_after_cancel>>
    /\ UNCHANGED <<simVars, dlgVars, rankVars, searchVars, loadVars, sessVars, fieldVars, logVars>>

(* PChome: session check, wait for the listing container, find_elements.    *)
(* After a replacement the new browser reloads the search page, the request *)
(* already recorded by the initial load.                                    *)
PchomeFindElements ==
    /\ pc = "find" /\ platform = "pchome"
    /\ \E session \in SessionChecks, outcome \in {"found", "timeout", "raise"},
          n \in ElementCounts :
          IF session = "replace_failed" THEN
              /\ pc' = "except"
              /\ driver' = "dead"
              /\ live_sessions' = Teardown(driver, live_sessions)
              /\ UNCHANGED <<n_elements, elem_i, page_products_count,
                             consecutive_duplicates, page_failure, requests, last_check>>
          ELSE
              /\ driver' = "open"
              /\ live_sessions' = Replaced(session, driver, live_sessions)
              /\ UNCHANGED <<requests, last_check>>
              /\ CASE outcome = "timeout" ->
                        /\ pc' = "finish"
                        /\ page_failure' = Snapshot
                        /\ UNCHANGED <<n_elements, elem_i, page_products_count,
                                       consecutive_duplicates>>
                   [] outcome = "raise" ->
                        /\ pc' = "except"
                        /\ UNCHANGED <<n_elements, elem_i, page_products_count,
                                       consecutive_duplicates, page_failure>>
                   [] outcome = "found" ->
                        /\ pc' = "parse"
                        /\ page_failure' = IF n = 0 THEN Snapshot ELSE page_failure
                        /\ n_elements' = n /\ elem_i' = 0
                        /\ page_products_count' = 0 /\ consecutive_duplicates' = 0
    /\ UNCHANGED <<platform, max_products, total_available, empty_run, progress, cancel_flag, products, seen_skus,
                   product_id, page, consecutive_empty_pages, result,
                   cancel_observed, elemCancel, pageCancel,
                   parsed_after_cancel, empty_search>>
    /\ UNCHANGED <<simVars, dlgVars, rankVars, searchVars, loadVars, sessVars, fieldVars, logVars>>

(* momo: "if not url and sku": the link is rebuilt from the sku *)
MomoUrl(e) == IF e.url = None /\ e.sku # 0 THEN <<"detail", e.sku>> ELSE e.url

NewRecord(title, price, url, sku) ==
    [id |-> product_id, title |-> title, price |-> price, url |-> url,
     platform |-> platform, sku |-> sku]

ParseFrame == UNCHANGED <<platform, max_products, total_available, empty_run, live_sessions, page_failure, cancel_flag, page,
                          consecutive_empty_pages, n_elements, driver, result,
                          requests, last_check, pageCancel, empty_search>>

(* the element is skipped: "continue" *)
SkipElement ==
    /\ pc' = "parse" /\ elem_i' = elem_i + 1
    /\ UNCHANGED <<products, seen_skus, product_id, page_products_count,
                   consecutive_duplicates, progress>>

(* "if consecutive_duplicates >= max_consecutive_duplicates: break" *)
DuplicateRunFull_Never(run) == FALSE
DuplicateRunFull(run) == run >= max_consecutive_duplicates

(* the element is a duplicate *)
DuplicateElement ==
    /\ consecutive_duplicates' = consecutive_duplicates + 1
    /\ IF DuplicateRunFull(consecutive_duplicates + 1)
       THEN pc' = "post" /\ UNCHANGED elem_i
       ELSE pc' = "parse" /\ elem_i' = elem_i + 1
    /\ UNCHANGED <<products, seen_skus, product_id, page_products_count, progress>>

(* the element is accepted: products.append(product) *)
(* product_id += 1 *)
NextProductId_Same(id) == id
NextProductId(id) == id + 1

AcceptElement(title, price, url, sku, remember) ==
    /\ consecutive_duplicates' = 0
    /\ products' = Append(products, NewRecord(title, price, url, sku))
    /\ seen_skus' = IF remember THEN seen_skus \cup {sku} ELSE seen_skus
    /\ product_id' = NextProductId(product_id)
    /\ page_products_count' = page_products_count + 1
    /\ progress' = Report(progress, "record", Len(products) + 1)
    /\ pc' = "parse" /\ elem_i' = elem_i + 1

(* one iteration of "for i, element in enumerate(product_elements)" (momo) *)
MomoParseElement ==
    /\ pc = "parse" /\ platform = "momo" /\ elem_i < n_elements
    /\ cancel_observed' = (cancel_observed \/ cancel_flag)
    /\ elemCancel' = IF cancel_flag /\ ~elemCancel.taken THEN Snapshot ELSE elemCancel
    /\ IF ElementCancelCheck(cancel_flag) THEN
          /\ pc' = "post"
          /\ UNCHANGED <<products, seen_skus, product_id, page_products_count,
                         consecutive_duplicates, elem_i, parsed_after_cancel, progress>>
       ELSE IF EnoughProducts(products, max_products) THEN
          /\ pc' = "post"
          /\ UNCHANGED <<products, seen_skus, product_id, page_products_count,
                         consecutive_duplicates, elem_i, parsed_after_cancel, progress>>
       ELSE
          /\ parsed_after_cancel' = (parsed_after_cancel \/ elemCancel'.taken)
          /\ \E e \in MomoElements :
                LET url == MomoUrl(e) IN
                IF e.kind \in {"empty", "raise"} THEN SkipElement
                ELSE IF e.title = "" THEN SkipElement
                ELSE IF e.price <= 0 THEN SkipElement
                ELSE IF ~MomoRecordComplete(e.title, e.price, url) THEN SkipElement
                ELSE IF MomoIsDuplicate(e.sku, url, seen_skus, products)
                     THEN DuplicateElement
                ELSE AcceptElement(e.title, e.price, url, e.sku, e.sku # 0)
    /\ ParseFrame
    /\ UNCHANGED <<simVars, dlgVars, rankVars, searchVars, loadVars, sessVars, fieldVars, logVars>>

(* one iteration of "for element in product_elements" (PChome) *)
PchomeParseElement ==
    /\ pc = "parse" /\ platform = "pchome" /\ elem_i < n_elements
    /\ cancel_observed' = (cancel_observed \/ cancel_flag)
    /\ elemCancel' = IF cancel_flag /\ ~elemCancel.taken THEN Snapshot ELSE elemCancel
    /\ IF ElementCancelCheck(cancel_flag) THEN
          /\ pc' = "post"
          /\ UNCHANGED <<products, seen_skus, product_id, page_products_count,
                         consecutive_duplicates, elem_i, parsed_after_cancel, progress>>
       ELSE IF EnoughProducts(products, max_products) THEN
          /\ pc' = "post"
          /\ UNCHANGED <<products, seen_skus, product_id, page_products_count,
                         consecutive_duplicates, elem_i, parsed_after_cancel, progress>>
       ELSE
          /\ parsed_after_cancel' = (parsed_after_cancel \/ elemCancel'.taken)
          /\ \E e \in PchomeElements :
                LET url == PchomeUrlAfterImageLoop(e)
                    sku == e.prod
                IN
                IF e.kind = "nosuch" THEN SkipElement
                ELSE IF e.kind = "raise" THEN
                    /\ pc' = "except"
                    /\ UNCHANGED <<products, seen_skus, product_id, progress,
                                   page_products_count, consecutive_duplicates, elem_i>>
                ELSE IF ~PchomeRecordComplete(e.title, e.price, url, sku)
                     THEN SkipElement
                ELSE IF PchomeIsDuplicate(sku, url, seen_skus, products)
                     THEN DuplicateElement
                ELSE AcceptElement(e.title, e.price, url, sku, TRUE)
    /\ ParseFrame
    /\ UNCHANGED <<simVars, dlgVars, rankVars, searchVars, loadVars, sessVars, fieldVars, logVars>>

(* the for loop has consumed every element of the page *)
EndOfElements ==
    /\ pc = "parse" /\ elem_i >= n_elements
    /\ pc' = "post"
    /\ UNCHANGED <<platform, max_products, total_available, empty_run, progress, live_sessions, page_failure, cancel_flag, products, seen_skus,
                   product_id, page, consecutive_empty_pages, n_elements, elem_i,
                   page_products_count, consecutive_duplicates, driver, result,
                   requests, last_check, cancel_observed, elemCancel, pageCancel,
                   parsed_after_cancel, empty_search>>
    /\ UNCHANGED <<simVars, dlgVars, rankVars, searchVars, loadVars, sessVars, fieldVars, logVars>>

(* consecutive_empty_pages after the page: "+= 1" on a page without new     *)
(* record, "= 0" otherwise                                                  *)
NextEmptyPages_NoReset(count, cep) == IF count = 0 THEN cep + 1 ELSE cep
NextEmptyPages(count, cep) == IF count = 0 THEN cep + 1 ELSE 0

(* the early-stop decision taken on page_products_count == 0; TRUE = break *)
EmptyPageStops_NoLaterPageRule(pg, n, cep) ==
    IF pg = 1 /\ n < MinRawElements THEN TRUE
    ELSE IF n < MinRawElements THEN TRUE
    ELSE IF cep >= 2 THEN TRUE
    ELSE FALSE

EmptyPageStops_NoFloor(pg, n, cep) ==
    IF pg > 1 /\ n >= MinRawElements THEN TRUE
    ELSE IF cep >= 2 THEN TRUE
    ELSE FALSE

EmptyPageStops(pg, n, cep) ==
    IF pg = 1 /\ n < MinRawElements THEN TRUE
    ELSE IF n < MinRawElements THEN TRUE
    ELSE IF pg > 1 /\ n >= MinRawElements THEN TRUE
    ELSE IF cep >= 2 THEN TRUE
    ELSE FALSE

(* after the element loop: early-stop policy, then the next page *)
PostPage ==
    /\ pc = "post"
    /\ empty_search' = (empty_search \/ (page = 1 /\ n_elements < MinRawElements
                                           /\ page_products_count = 0))
    /\ empty_run' = IF page_products_count = 0 THEN empty_run + 1 ELSE 0
    /\ LET cep == NextEmptyPages(page_products_count, consecutive_empty_pages)
           stop == page_products_count = 0 /\ EmptyPageStops(page, n_elements, cep)
       IN
       /\ consecutive_empty_pages' = cep
       /\ IF stop THEN pc' = "finish" /\ UNCHANGED page
          ELSE IF platform = "momo" THEN
             IF Len(products) < max_products
             THEN pc' = "loop" /\ page' = page + 1
             ELSE pc' = "finish" /\ UNCHANGED page
          ELSE
             IF Len(products) >= max_products
             THEN pc' = "finish" /\ UNCHANGED page
             ELSE pc' = "next" /\ UNCHANGED page
    /\ UNCHANGED <<platform, max_products, total_available, progress, live_sessions, page_failure, cancel_flag, products, seen_skus,
                   product_id, n_elements, elem_i, page_products_count,
                   consecutive_duplicates, driver, result, requests, last_check,
                   cancel_observed, elemCancel, pageCancel, parsed_after_cancel>>
    /\ UNCHANGED <<simVars, dlgVars, rankVars, searchVars, loadVars, sessVars, fieldVars, logVars>>

(* PChome: click the next-page button *)
PchomeNextPage ==
    /\ pc = "next" /\ platform = "pchome"
    /\ \E outcome \in {"clicked", "nobutton", "raise"} :
          CASE outcome = "clicked" ->
                 /\ requests' = Append(requests, Request(page + 1))
                 /\ last_check' = "none"
                 /\ page' = page + 1
                 /\ pc' = "loop"
            [] outcome = "nobutton" ->
                 pc' = "finish" /\ UNCHANGED <<requests, last_check, page>>
            [] outcome = "raise" ->
                 pc' = "except" /\ UNCHANGED <<requests, last_check, page>>
    /\ UNCHANGED <<platform, max_products, total_available, empty_run, progress, live_sessions, page_failure, cancel_flag, products, seen_skus,
                   product_id, consecutive_empty_pages, n_elements, elem_i,
                   page_products_count, consecutive_duplicates, driver, result,
                   cancel_observed, elemCancel, pageCancel, parsed_after_cancel, empty_search>>
    /\ UNCHANGED <<simVars, dlgVars, rankVars, searchVars, loadVars, sessVars, fieldVars, logVars>>

(* after the page loop: final progress report, "return products", finally *)
Finish ==
    /\ pc = "finish"
    /\ result' = products
    /\ progress' = Report(progress, "end", Len(products))
    /\ driver' = AfterFinally(driver)
    /\ live_sessions' = Teardown(driver, live_sessions)
    /\ pc' = "done"
    /\ UNCHANGED <<platform, max_products, total_available, empty_run, page_failure, cancel_flag, products, seen_skus,
                   product_id, page, consecutive_empty_pages, n_elements, elem_i,
                   page_products_count, consecutive_duplicates,
                   requests, last_check, cancel_observed, elemCancel, pageCancel,
                   parsed_after_cancel, empty_search>>
    /\ UNCHANGED <<simVars, dlgVars, rankVars, searchVars, loadVars, sessVars, fieldVars, logVars>>

(* "except Exception": return products if products else [], finally *)
Except ==
    /\ pc = "except"
    /\ result' = IF products # <<>> THEN products ELSE <<>>
    /\ driver' = AfterFinally(driver)
    /\ live_sessions' = Teardown(driver, live_sessions)
    /\ pc' = "done"
    /\ UNCHANGED <<platform, max_products, total_available, empty_run, progress, page_failure, cancel_flag, products, seen_skus,
                   product_id, page, consecutive_empty_pages, n_elements, elem_i,
                   page_products_count, consecutive_duplicates,
                   requests, last_check, cancel_observed, elemCancel, pageCancel,
                   parsed_after_cancel, empty_search>>
    /\ UNCHANGED <<simVars, dlgVars, rankVars, searchVars, loadVars, sessVars, fieldVars, logVars>>

ScrapeNext ==
    \/ SetCancel
    \/ StartDriver
    \/ PchomeInitialLoad
    \/ LoopTop
    \/ MomoLoadPage
    \/ MomoReadTotal
    \/ MomoFindElements
    \/ PchomeFindElements
    \/ MomoParseElement
    \/ PchomeParseElement
    \/ EndOfElements
    \/ PostPage
    \/ PchomeNextPage
    \/ Finish
    \/ Except

SpecScrape == ScrapeInit /\ [][ScrapeNext]_vars

(* every step of the worker thread: all of the scrape but the setting of    *)
(* the flag, which the supervising loop does                                *)
WorkerStep ==
    \/ StartDriver
    \/ PchomeInitialLoad
    \/ LoopTop
    \/ MomoLoadPage
    \/ MomoReadTotal
    \/ MomoFindElements
    \/ PchomeFindElements
    \/ MomoParseElement
    \/ PchomeParseElement
    \/ EndOfElements
    \/ PostPage
    \/ PchomeNextPage
    \/ Finish
    \/ Except

(* a run asked for one record: the record limit plays no part in the way    *)
(* out of a worker whose flag is set, and the runs to follow stay few       *)
ScrapeInitOne ==
    /\ ScrapeInit
    /\ max_products = 1

(* the worker thread keeps running after the supervising loop has returned, *)
(* and every request to the storefront completes or times out: a step of    *)
(* the worker that can be taken is eventually taken                         *)
SpecScrapeLive == ScrapeInitOne /\ [][ScrapeNext]_vars /\ WF_vars(WorkerStep)

-----------------------------------------------------------------------------
(* Properties of the scrape run *)

NoDuplicates(L) ==
    \A i, j \in DOMAIN L :
        i # j => /\ (L[i].sku # 0 => L[i].sku # L[j].sku)
                 /\ L[i].url # L[j].url

(* C1: at every point of a momo or PChome scrape, and in the returned list, *)
(* no two records share a non-empty sku and no two records share a url.     *)
C1_DedupInvariant ==
    /\ NoDuplicates(products)
    /\ (pc = "done" => NoDuplicates(result))

(* a run that returned one record after rejecting a duplicate of it *)
C1_Witness ==
    pc = "done" /\ Len(result) = 1 /\ max_products = 2 /\ consecutive_duplicates >= 1

(* C7: once the element-level cancellation check has seen the flag set, no  *)
(* further record is accepted, no further element is parsed, and the list   *)
(* returned is the list of records accepted before that check.              *)
C7_CancelDuringPage ==
    elemCancel.taken =>
        /\ products = elemCancel.products
        /\ ~parsed_after_cancel
        /\ (pc = "done" => result = elemCancel.products)

(* a run cancelled in the middle of a page, after a record was accepted and *)
(* with elements of the page left unparsed                                  *)
C7_Witness ==
    /\ pc = "done" /\ elemCancel.taken
    /\ Len(result) >= 1 /\ elem_i >= 1 /\ elem_i < n_elements

(* C8 as stated: every page request (momo or PChome, page 1 included) is    *)
(* preceded by a cancellation check that returned false, and no page is     *)
(* requested once a check has returned true.                                *)
C8_CheckBeforeEveryRequest ==
    \A i \in DOMAIN requests :
        requests[i].check = "clear" /\ ~requests[i].observed

(* C8 amended: in the momo scrape every page request is preceded by a       *)
(* loop-top cancellation check that returned false and no page is requested *)
(* once a check has returned true; in both scrapes, when the loop-top check *)
(* returns true the run stops and returns the records collected so far.     *)
C8_MomoCheckBeforeRequest ==
    /\ platform = "momo" =>
          \A i \in DOMAIN requests :
              requests[i].check = "clear" /\ ~requests[i].observed
    /\ pageCancel.taken =>
          /\ pc \in {"finish", "done"}
          /\ products = pageCancel.products
          /\ (pc = "done" => result = pageCancel.products)

(* a momo run stopped by the loop-top check after a page had been requested *)
C8_Witness ==
    /\ platform = "momo" /\ pc = "done" /\ pageCancel.taken
    /\ Len(requests) >= 1 /\ Len(result) >= 1

(* C9: when page 1 ends with fewer than 10 raw elements and no new record,  *)
(* the run stops, page 2 is never requested and the returned list is empty. *)
C9_EmptySearchStops ==
    empty_search =>
        /\ pc \in {"finish", "done"}
        /\ \A i \in DOMAIN requests : requests[i].page = 1
        /\ products = <<>>
        /\ (pc = "done" => result = <<>>)

(* page 1 had 2 raw elements, all parsed, none accepted *)
C9_Witness ==
    empty_search /\ pc = "done" /\ n_elements = 2 /\ elem_i = 2

(* C10: the number of collected records never exceeds max_products, once it *)
(* reaches max_products the run only leaves the element loop and returns    *)
(* (no further page), and the returned list has at most max_products        *)
(* records.                                                                 *)
C10_MaxProducts ==
    /\ Len(products) <= max_products
    /\ (Len(products) >= max_products => pc \in {"parse", "post", "finish", "done"})
    /\ (pc = "done" => Len(result) <= max_products)

(* a run that returned max_products = 2 records with elements left over *)
C10_Witness ==
    /\ pc = "done" /\ max_products = 2 /\ Len(result) = 2
    /\ elem_i < n_elements

(* C12: when a page cannot be loaded after the retries, or a loaded page    *)
(* holds no listing element, the run stops without raising and returns     *)
(* exactly the records accumulated on the earlier pages.                    *)
C12_PageFailureStops ==
    page_failure.taken =>
        /\ pc \in {"parse", "post", "finish", "done"}
        /\ pc = "parse" => (platform = "pchome" /\ n_elements = 0)
        /\ pc = "post" => (platform = "pchome" /\ n_elements = 0)
        /\ products = page_failure.products
        /\ (pc = "done" => result = page_failure.products)

(* page 2 could not be loaded or was empty after page 1 gave a record *)
C12_Witness ==
    /\ pc = "done" /\ page_failure.taken /\ page = 2 /\ Len(result) = 1

(* C13: on every exit path every browser session the run created,         *)
(* replacements included, has been torn down when the function returns; at  *)
(* most one session is alive at any time.                                   *)
C13_SessionsTornDown ==
    /\ live_sessions \in {0, 1}
    /\ (driver = "open") = (live_sessions = 1)
    /\ (pc = "done" => live_sessions = 0)

(* a run whose session became invalid on a later page: the old browser was  *)
(* quit, the replacement could not be started, and the run returned its     *)
(* record with no session left                                              *)
C13_Witness ==
    /\ pc = "done" /\ driver = "dead" /\ page = 2
    /\ Len(result) = 1 /\ live_sessions = 0

(* C16: when the driver initialisation fails and the fallback driver fails *)
(* too, the scrape function raises: it never returns a product list while   *)
(* no driver was ever started.                                              *)
C16_InitFailureRaises ==
    ~(pc = "done" /\ driver = "none")

(* C20: a failure while one listing element is parsed only skips that      *)
(* element: a step of the element loop never leaves the loop for the        *)
(* exception handler of the function; it stays in the loop or ends the page.*)
C20_ElementFailureOnlySkips ==
    [][pc = "parse" => pc' \in {"parse", "post"}]_vars

(* C15: the progress callback is told of every page at the top of which    *)
(* the run did not stop and of every accepted record, and the value of      *)
(* current it is given never decreases.                                     *)
C15_ProgressMonotone ==
    /\ [](progress.monotone /\ progress.records = Len(products)
                             /\ progress.last <= Len(products))
    /\ [][(pc = "loop" /\ pc' \in {"load", "find"})
             => (progress'.pages = progress.pages + 1
                 /\ progress'.last = Len(products))]_vars
    /\ [][Len(products') > Len(products)
             => (progress'.records = progress.records + 1
                 /\ progress'.last = Len(products'))]_vars

(* two pages reported, a record accepted on each of them *)
C15_Witness ==
    /\ pc = "done" /\ progress.pages = 2 /\ progress.records = 2
    /\ progress.last = 2 /\ page_products_count = 1

(* C21: within one page no element is parsed once the run of duplicates has *)
(* reached 10: the tenth duplicate in a row ends the page with the rest of  *)
(* its elements unparsed; elements that are skipped do not end the run, a   *)
(* newly accepted record sets it back to 0.                                 *)
C21_DuplicateRunLimiter ==
    /\ [](pc = "parse" => consecutive_duplicates < max_consecutive_duplicates)
    /\ [][(pc = "parse" /\ consecutive_duplicates' = max_consecutive_duplicates
                        /\ consecutive_duplicates' # consecutive_duplicates)
             => (pc' = "post" /\ elem_i' = elem_i /\ products' = products)]_vars
    /\ [][Len(products') > Len(products) => consecutive_duplicates' = 0]_vars

(* page 2 had 11 elements; the first ten were duplicates of the record of   *)
(* page 1 and the eleventh was never parsed                                 *)
C21_Witness ==
    /\ pc = "done" /\ page = 2 /\ n_elements = 11 /\ elem_i = 9
    /\ consecutive_duplicates = max_consecutive_duplicates /\ Len(result) = 1

(* the page just processed ends the run: one of the five listed conditions  *)
(* (the total-available count is read before a page is parsed, never after) *)
ListedStop ==
    \/ Len(products) >= max_products
    \/ /\ page_products_count = 0
       /\ \/ page = 1 /\ n_elements < MinRawElements
          \/ page > 1 /\ n_elements >= MinRawElements
          \/ consecutive_empty_pages' >= 2

(* C22 as stated: after a page processed without cancellation, load failure *)
(* or missing elements the run goes on to the next page unless the maximum  *)
(* is reached, or the page gave no new record and it was page 1 with fewer  *)
(* than 10 raw elements, or a page > 1 with at least 10, or the second such *)
(* page in a row; nothing else stops the run.                               *)
C22_OnlyListedStops ==
    [][(pc \in {"post", "next"} /\ pc' \in {"finish", "except"}
          /\ ~cancel_observed /\ n_elements > 0)
        => (pc = "post" /\ ListedStop)]_vars

(* what the code stops on after a page *)
StopsAfterPage ==
    \/ Len(products) >= max_products
    \/ page_products_count = 0 /\ (n_elements < MinRawElements \/ page > 1)

(* C22 amended: after the element loop of a page the run stops exactly when *)
(* the maximum is reached or the page gave no new record and either had     *)
(* fewer than 10 raw elements (on any page) or was a page > 1; otherwise    *)
(* momo goes to the next page and PChome to the next-page button, where a   *)
(* missing button or a failed click also ends the run.                      *)
C22_StopsAfterPage ==
    /\ [][(pc = "post" /\ pc' # pc) =>
            IF StopsAfterPage THEN pc' = "finish" /\ page' = page
            ELSE IF platform = "momo" THEN pc' = "loop" /\ page' = page + 1
            ELSE pc' = "next" /\ page' = page]_vars
    /\ [][(pc = "next" /\ pc' # pc) =>
            \/ pc' = "loop" /\ page' = page + 1
            \/ pc' \in {"finish", "except"} /\ page' = page]_vars

(* page 2 had 2 raw elements and gave no new record: the run stopped with   *)
(* the record of page 1, no cancel having been seen                         *)
C22_Witness ==
    /\ pc = "done" /\ page = 2 /\ n_elements = 2 /\ elem_i = 2
    /\ page_products_count = 0 /\ consecutive_empty_pages = 1
    /\ Len(result) = 1 /\ max_products = 2 /\ ~cancel_observed

(* C25: a page > 1 that had at least 10 raw listing elements and gave no    *)
(* new record ends the run: the next step is the return, and no further     *)
(* page is requested.                                                       *)
C25_AllDuplicatesPageStops ==
    /\ [][(pc = "post" /\ pc' # pc /\ page > 1 /\ n_elements >= MinRawElements
                       /\ page_products_count = 0)
             => (pc' = "finish" /\ page' = page /\ requests' = requests)]_vars
    /\ [][pc = "finish" => (pc' \in {"finish", "done"} /\ requests' = requests)]_vars

(* page 2 had exactly 10 raw elements, every one a duplicate of the record  *)
(* of page 1; the run returned after two requests                           *)
C25_Witness ==
    /\ pc = "done" /\ page = 2 /\ n_elements = MinRawElements
    /\ page_products_count = 0 /\ consecutive_duplicates = max_consecutive_duplicates
    /\ Len(requests) = 2 /\ Len(result) = 1

(* C33: a run loads at most max_products + 1 result pages: a page after     *)
(* which the run goes on to the next page has given at least one new record *)
(* or is page 1.                                                            *)
C33_AtMostOnePageMoreThanRecords ==
    /\ [](page <= max_products + 1 /\ Len(requests) <= max_products + 1)
    /\ [][page' # page
            => (page' = page + 1 /\ Len(products) < max_products
                /\ (page_products_count > 0 \/ page = 1))]_vars

(* page 1 gave nothing, each page after it one record, until the limit      *)
C33_Witness ==
    /\ pc = "done" /\ platform = "momo" /\ max_products = MaxProducts
    /\ Len(requests) = max_products + 1 /\ Len(result) = max_products
    /\ ~cancel_flag

(* C37: the record at position i of the list a scrape collects and returns  *)
(* has id i, counting from 1, so the ids of one result are pairwise         *)
(* distinct.                                                                *)
C37_IdsAreListPositions ==
    /\ \A i \in DOMAIN products : products[i].id = i
    /\ \A i \in DOMAIN result : result[i].id = i
    /\ \A i, j \in DOMAIN result : i # j => result[i].id # result[j].id

(* a PChome result of two records collected on two pages *)
C37_Witness ==
    /\ pc = "done" /\ platform = "pchome" /\ Len(result) = 2 /\ page = 2
    /\ result[2].id = 2

(* C26: once two pages in a row have each given no new record the run only  *)
(* returns and requests no further page; the consecutive-empty-page counter *)
(* is 0 right after a page that gave a new record, and it counts the pages  *)
(* in a row without new record.                                             *)
C26_TwoEmptyPagesStop ==
    /\ [](empty_run >= 2 => pc \in {"finish", "done"})
    /\ [][empty_run >= 2 => requests' = requests]_vars
    /\ [][(pc = "post" /\ pc' # pc /\ page_products_count > 0)
             => consecutive_empty_pages' = 0]_vars
    /\ [](consecutive_empty_pages = empty_run)

(* page 1 had at least 10 raw elements and gave no record, page 2 gave none *)
(* either: two requests, an empty list returned                             *)
C26_Witness ==
    /\ pc = "done" /\ empty_run = 2 /\ page = 2 /\ Len(requests) = 2
    /\ result = <<>> /\ ~cancel_observed

(* C27: in the momo scrape, when the page just loaded shows a total T and   *)
(* the records collected are already T or more (T = 0 included) the run     *)
(* leaves the page loop without looking for or parsing any element; when    *)
(* the total is absent or not a number the run goes on to look for the      *)
(* elements; it goes on, too, when T is greater than the records collected. *)
(* The PChome scrape never reads a total.                                   *)
C27_TotalAvailableStops ==
    /\ [][(total_available' # total_available /\ total_available' >= 0)
             => /\ platform = "momo" /\ pc = "find"
                /\ products' = products /\ elem_i' = elem_i
                /\ IF Len(products) >= total_available'
                   THEN pc' = "finish" ELSE pc' = "select"]_vars
    /\ [][(total_available' # total_available /\ total_available' = Unreadable)
             => (platform = "momo" /\ pc = "find" /\ pc' = "select")]_vars
    /\ [](platform = "pchome" => total_available = NoTotal)
    /\ [](pc \in {"select", "parse", "post"} /\ total_available >= 0
            => Len(products) < total_available)

(* page 2 showed a total of 1 after page 1 had given one record: the run    *)
(* returned it without parsing page 2                                       *)
C27_Witness ==
    /\ pc = "done" /\ platform = "momo" /\ total_available = 1 /\ page = 2
    /\ Len(result) = 1 /\ Len(requests) = 2 /\ max_products = 2

CompleteRecords(L) ==
    \A i \in DOMAIN L : L[i].title # "" /\ L[i].price > 0 /\ L[i].url # None

(* C11: every collected and every returned record has a non-empty title, a  *)
(* price greater than 0 and a non-empty url; an element lacking one of the  *)
(* three produces no record.                                                *)
C11_RecordsComplete ==
    /\ CompleteRecords(products)
    /\ (pc = "done" => CompleteRecords(result))

(* a run that returned a record after skipping elements of the same page *)
C11_Witness ==
    /\ pc = "done" /\ Len(result) = 1 /\ n_elements = 2 /\ elem_i = 2
    /\ page_products_count = 1

-----------------------------------------------------------------------------
(* Similarity matcher: calculate_similarities_in_memory and                 *)
(* calculate_similarities_for_all                                           *)

ScoreLevels == {threshold - 1, threshold, threshold + 1}

(* a product set as scraped: row r carries id r and a title of its own *)
ProductSet(n) == [r \in 1..n |-> [id |-> r, title |-> <<"title", r>>]]

(* prepare_text(title, platform): the prefix chosen by platform (site), then *)
(* the title; a text is the sequence of its parts                           *)
prepare_text_AlwaysQuery(title, site) == <<"query: ">> \o title
prepare_text(title, site) ==
    <<IF site = "momo" THEN "query: " ELSE "passage: ">> \o title

(* [prepare_text(title, platform) for title in df['title']] *)
TextsOf(df, site) == [r \in DOMAIN df |-> prepare_text(df[r].title, site)]

(* "if score >= threshold" *)
AboveThreshold_Strict(score, th) == score > th
AboveThreshold(score, th) == score >= th

(* sort(key=similarity, reverse=True) is stable: an element that came       *)
(* earlier stays ahead of a later one unless its similarity is smaller      *)
StaysAhead_Strict(earlier, later) == earlier.similarity > later.similarity
StaysAhead(earlier, later) == earlier.similarity >= later.similarity

(* insert x behind every element of the sorted list whose similarity is not *)
(* smaller: list.sort(key=similarity, reverse=True) is stable               *)
RECURSIVE InsertBySimilarity(_, _)
InsertBySimilarity(sorted, x) ==
    IF sorted = <<>> THEN <<x>>
    ELSE IF StaysAhead(Head(sorted), x)
         THEN <<Head(sorted)>> \o InsertBySimilarity(Tail(sorted), x)
         ELSE <<x>> \o sorted

RECURSIVE SortBySimilarityDesc(_)
SortBySimilarityDesc(matches) ==
    IF matches = <<>> THEN <<>>
    ELSE InsertBySimilarity(SortBySimilarityDesc(SubSeq(matches, 1, Len(matches) - 1)),
                            matches[Len(matches)])

(* the loop "for idx, score in enumerate(cos_similarities)" from index k on *)
RECURSIVE MatchesFrom(_, _, _)
MatchesFrom(k, targets, scores) ==
    IF k > Len(targets) THEN <<>>
    ELSE (IF AboveThreshold(scores[k], threshold)
          THEN <<[target_id |-> targets[k].id, similarity |-> scores[k]]>>
          ELSE <<>>)
         \o MatchesFrom(k + 1, targets, scores)

(* scores of source row r against every target row *)
ScoresOf(r, dir) ==
    IF dir = "momo_to_pchome"
    THEN [j \in 1..Len(pchome_df) |-> cos[<<r, j>>]]
    ELSE [i \in 1..Len(momo_df) |-> cos[<<i, r>>]]

SourceSet(dir) == IF dir = "momo_to_pchome" THEN momo_df ELSE pchome_df
TargetSet(dir) == IF dir = "momo_to_pchome" THEN pchome_df ELSE momo_df

SimInit ==
    /\ \E nm \in 0..MaxRows, np \in 0..MaxRows :
          /\ momo_df = ProductSet(nm)
          /\ pchome_df = ProductSet(np)
          /\ cos \in [(1..nm) \X (1..np) -> ScoreLevels]
    /\ direction \in {"momo_to_pchome", "pchome_to_momo"}
    /\ similarities = <<>>
    /\ sim_pc = "ready"
    /\ momo_texts = <<>> /\ pchome_texts = <<>>
    /\ ScrapeIdle /\ DlgIdle /\ RankIdle /\ SearchIdle /\ LoadIdle /\ SessIdle /\ FieldIdle /\ LogIdle

(* matcher_app.calculate_similarities_in_memory; encoded = FALSE: the        *)
(* embedding model raised, "except Exception" returns {}                    *)
CalculateSimilaritiesInMemory ==
    /\ sim_pc = "ready"
    /\ IF momo_df = <<>> \/ pchome_df = <<>>
       THEN UNCHANGED <<momo_texts, pchome_texts>>
       ELSE /\ momo_texts' = TextsOf(momo_df, "momo")
            /\ pchome_texts' = TextsOf(pchome_df, "pchome")
    /\ IF momo_df = <<>> \/ pchome_df = <<>>
       THEN similarities' = <<>> /\ sim_pc' = "done"
       ELSE \E encoded \in BOOLEAN :
              IF ~encoded
              THEN similarities' = <<>> /\ sim_pc' = "failed"
              ELSE /\ sim_pc' = "done"
                   /\ similarities' =
                        LET src == SourceSet(direction)
                            tgt == TargetSet(direction)
                        IN [id \in {src[r].id : r \in DOMAIN src} |->
                              LET r == CHOOSE x \in DOMAIN src : src[x].id = id
                              IN SortBySimilarityDesc(
                                     MatchesFrom(1, tgt, ScoresOf(r, direction)))]
    /\ UNCHANGED <<momo_df, pchome_df, cos, direction>>
    /\ UNCHANGED <<scrapeVars, dlgVars, rankVars, searchVars, loadVars, sessVars, fieldVars, logVars>>

(* similarity_calculator.calculate_similarities_for_all: momo -> PChome,    *)
(* a source without match gets no key                                       *)
CalculateSimilaritiesForAll ==
    /\ sim_pc = "ready"
    /\ direction = "momo_to_pchome"
    /\ IF momo_df = <<>> \/ pchome_df = <<>>
       THEN UNCHANGED <<momo_texts, pchome_texts>>
       ELSE /\ momo_texts' = TextsOf(momo_df, "momo")
            /\ pchome_texts' = TextsOf(pchome_df, "pchome")
    /\ similarities' =
          IF momo_df = <<>> \/ pchome_df = <<>> THEN <<>>
          ELSE LET matchesOf(r) ==
                     SortBySimilarityDesc(MatchesFrom(1, pchome_df, ScoresOf(r, "momo_to_pchome")))
               IN [id \in {momo_df[r].id : r \in {x \in DOMAIN momo_df : matchesOf(x) # <<>>}} |->
                     matchesOf(CHOOSE x \in DOMAIN momo_df : momo_df[x].id = id)]
    /\ sim_pc' = "done"
    /\ UNCHANGED <<momo_df, pchome_df, cos, direction>>
    /\ UNCHANGED <<scrapeVars, dlgVars, rankVars, searchVars, loadVars, sessVars, fieldVars, logVars>>

SimNext ==
    \/ CalculateSimilaritiesInMemory
    \/ CalculateSimilaritiesForAll

SpecSim == SimInit /\ [][SimNext]_vars

(* the candidates stored for source id s that point at target id t *)
StoredFor(s, t) ==
    IF s \in DOMAIN similarities
    THEN {k \in DOMAIN similarities[s] : similarities[s][k].target_id = t}
    ELSE {}

PairScore(r, c) == ScoresOf(r, direction)[c]

(* C4: after a similarity computation that produced the cosine scores, a    *)
(* candidate is stored for the pair                                         *)
(* (source s, target t) if and only if their cosine similarity is >= the    *)
(* threshold 0.739465, and every stored candidate has similarity >= the     *)
(* threshold.                                                               *)
C4_ThresholdInvariant ==
    sim_pc = "done" =>
        /\ \A r \in DOMAIN SourceSet(direction), c \in DOMAIN TargetSet(direction) :
              (StoredFor(SourceSet(direction)[r].id, TargetSet(direction)[c].id) # {})
                  <=> (PairScore(r, c) >= threshold)
        /\ \A s \in DOMAIN similarities :
              \A k \in DOMAIN similarities[s] :
                  similarities[s][k].similarity >= threshold

(* a computed map in which a pair exactly at the threshold is stored and a  *)
(* pair just below it is not                                                *)
C4_Witness ==
    /\ sim_pc = "done"
    /\ \E r \in DOMAIN SourceSet(direction), c \in DOMAIN TargetSet(direction) :
          /\ PairScore(r, c) = threshold
          /\ StoredFor(SourceSet(direction)[r].id, TargetSet(direction)[c].id) # {}
    /\ \E r \in DOMAIN SourceSet(direction), c \in DOMAIN TargetSet(direction) :
          /\ PairScore(r, c) = threshold - 1
          /\ StoredFor(SourceSet(direction)[r].id, TargetSet(direction)[c].id) = {}

(* the row of the target set that carries the id t *)
TargetRow(t) == CHOOSE c \in DOMAIN TargetSet(direction) : TargetSet(direction)[c].id = t

(* C17: in every candidate list of the similarity map the similarity never  *)
(* increases from one candidate to the next, and candidates of equal        *)
(* similarity stand in the order of their rows in the target product set.   *)
C17_CandidatesOrdered ==
    \A s \in DOMAIN similarities :
        \A k, l \in DOMAIN similarities[s] :
            k < l =>
                /\ similarities[s][k].similarity >= similarities[s][l].similarity
                /\ (similarities[s][k].similarity = similarities[s][l].similarity
                      => TargetRow(similarities[s][k].target_id)
                           < TargetRow(similarities[s][l].target_id))

(* a list holding two candidates of equal similarity, and a list in which   *)
(* the later target row has the greater similarity and stands first         *)
C17_Witness ==
    /\ sim_pc = "done"
    /\ \E s \in DOMAIN similarities :
          /\ Len(similarities[s]) = 2
          /\ similarities[s][1].similarity = similarities[s][2].similarity
    /\ \E s \in DOMAIN similarities :
          /\ Len(similarities[s]) = 2
          /\ similarities[s][1].similarity > similarities[s][2].similarity
          /\ similarities[s][1].target_id = 2

(* the texts of the source and of the target platform of the direction *)
SourceTexts == IF direction = "momo_to_pchome" THEN momo_texts ELSE pchome_texts
TargetTexts == IF direction = "momo_to_pchome" THEN pchome_texts ELSE momo_texts

Embedded == sim_pc \in {"done", "failed"} /\ momo_df # <<>> /\ pchome_df # <<>>

(* C18 as stated: in both directions the titles of the source platform are  *)
(* embedded with the prefix "query: " and those of the target platform with *)
(* "passage: ".                                                             *)
C18_PrefixByRole ==
    Embedded =>
        /\ \A r \in DOMAIN SourceTexts : Head(SourceTexts[r]) = "query: "
        /\ \A r \in DOMAIN TargetTexts : Head(TargetTexts[r]) = "passage: "

(* C18 amended: in both directions the momo titles are embedded as          *)
(* "query: " followed by the title and the PChome titles as "passage: "     *)
(* followed by the title, whichever platform is the source.                 *)
C18_PrefixByPlatform ==
    Embedded =>
        /\ DOMAIN momo_texts = DOMAIN momo_df
        /\ DOMAIN pchome_texts = DOMAIN pchome_df
        /\ \A r \in DOMAIN momo_df : momo_texts[r] = <<"query: ">> \o momo_df[r].title
        /\ \A r \in DOMAIN pchome_df : pchome_texts[r] = <<"passage: ">> \o pchome_df[r].title

(* PChome is the source and its titles were embedded as passages *)
C18_Witness ==
    /\ sim_pc = "done" /\ direction = "pchome_to_momo"
    /\ Len(pchome_texts) = MaxRows /\ Len(momo_texts) = 1
    /\ Head(SourceTexts[1]) = "passage: " /\ Head(TargetTexts[1]) = "query: "

-----------------------------------------------------------------------------
(* Result ranker: quicksort_by_price *)

(* pd.isna(price) *)
IsNa(price) == price \in {NaN, NoPrice}

(* the sort key: target_price, float('inf') when it is missing or NaN *)
PriceKey_Raw(price) == price
PriceKey(price) == IF IsNa(price) THEN Inf ELSE price

ItemKey(x) == PriceKey(x.match.target_price)

(* "middle = [x for x in arr if key(x) == pivot_price]": the items of the    *)
(* pivot's price, in the order they have in arr                             *)
Middle_Reversed(arr, pivot_price) ==
    LET m == SelectSeq(arr, LAMBDA x : ItemKey(x) = pivot_price)
    IN [i \in 1..Len(m) |-> m[Len(m) + 1 - i]]
Middle(arr, pivot_price) == SelectSeq(arr, LAMBDA x : ItemKey(x) = pivot_price)

(* the inner function quicksort(arr) *)
RECURSIVE quicksort(_)
quicksort(arr) ==
    IF Len(arr) <= 1 THEN arr
    ELSE LET pivot == arr[(Len(arr) \div 2) + 1]
             pivot_price == ItemKey(pivot)
             left == SelectSeq(arr, LAMBDA x : ItemKey(x) < pivot_price)
             middle == Middle(arr, pivot_price)
             right == SelectSeq(arr, LAMBDA x : ItemKey(x) > pivot_price)
         IN quicksort(left) \o middle \o quicksort(right)

quicksort_by_price(items) ==
    IF Len(items) <= 1 THEN items
    ELSE LET matched == SelectSeq(items, LAMBDA item : item.is_match)
             unmatched == SelectSeq(items, LAMBDA item : ~item.is_match)
         IN quicksort(matched) \o quicksort(unmatched)

Prices == {NaN, NoPrice, 50, 100}

(* a judged match: candidate k with the given price and verdict *)
Judged(k, price, m) ==
    [match |-> [target_id |-> k, target_price |-> price, similarity |-> threshold],
     result |-> [is_match |-> m, confidence |-> "high", reasoning |-> "r"],
     is_match |-> m]

RankInit ==
    /\ \E n \in 0..MaxItems :
          \E ps \in [1..n -> Prices], ms \in [1..n -> BOOLEAN] :
              rank_in = [k \in 1..n |-> Judged(k, ps[k], ms[k])]
    /\ rank_out = <<>>
    /\ rank_pc = "ready"
    /\ ScrapeIdle /\ SimIdle /\ DlgIdle /\ SearchIdle /\ LoadIdle /\ SessIdle /\ FieldIdle /\ LogIdle

Rank ==
    /\ rank_pc = "ready"
    /\ rank_out' = quicksort_by_price(rank_in)
    /\ rank_pc' = "done"
    /\ UNCHANGED rank_in
    /\ UNCHANGED <<scrapeVars, simVars, dlgVars, searchVars, loadVars, sessVars, fieldVars, logVars>>

RankNext == Rank

SpecRank == RankInit /\ [][RankNext]_vars

(* C5: in the ranked output every matched item precedes every unmatched     *)
(* item, and inside each partition the target prices are non-decreasing     *)
(* with the items whose price is missing or NaN last; the output holds the  *)
(* items of the input.                                                      *)
C5_MatchedFirstPriceAscending ==
    rank_pc = "done" =>
        /\ Len(rank_out) = Len(rank_in)
        /\ Range(rank_out) = Range(rank_in)
        /\ \A i, j \in DOMAIN rank_out :
              i < j =>
                /\ (rank_out[j].is_match => rank_out[i].is_match)
                /\ (rank_out[i].is_match = rank_out[j].is_match =>
                      /\ (IsNa(rank_out[i].match.target_price)
                             => IsNa(rank_out[j].match.target_price))
                      /\ (~IsNa(rank_out[i].match.target_price)
                            /\ ~IsNa(rank_out[j].match.target_price)
                             => rank_out[i].match.target_price
                                  <= rank_out[j].match.target_price))

(* matched 100, unmatched 50, matched 50, matched NaN come out as matched   *)
(* 50, matched 100, matched NaN, unmatched 50                               *)
C5_Witness ==
    /\ rank_pc = "done"
    /\ Len(rank_in) = 4
    /\ rank_in[1].is_match /\ rank_in[1].match.target_price = 100
    /\ ~rank_in[2].is_match /\ rank_in[2].match.target_price = 50
    /\ rank_in[3].is_match /\ rank_in[3].match.target_price = 50
    /\ rank_in[4].is_match /\ rank_in[4].match.target_price = NaN
    /\ rank_out = <<rank_in[3], rank_in[1], rank_in[4], rank_in[2]>>

-----------------------------------------------------------------------------
(* Verdict aggregator: gemini_verify_batch *)

(* one element of the parsed JSON array.  isdict: it is a JSON object;      *)
(* complete: it has the keys is_match, confidence and reasoning             *)
Verdict(m, c) ==
    [isdict |-> TRUE, complete |-> TRUE, is_match |-> m, confidence |-> c,
     reasoning |-> "r"]
EmptyObject ==
    [isdict |-> TRUE, complete |-> FALSE, is_match |-> FALSE, confidence |-> "",
     reasoning |-> ""]
NotAnObject ==
    [isdict |-> FALSE, complete |-> FALSE, is_match |-> FALSE, confidence |-> "",
     reasoning |-> ""]
FallbackVerdict(reason) ==
    [isdict |-> TRUE, complete |-> TRUE, is_match |-> FALSE, confidence |-> "low",
     reasoning |-> reason]

(* the fallback return: one fallback verdict per pair *)
FallbackList_Short(match_pairs, reason) ==
    [type |-> "list",
     items |-> [i \in 1..(Len(match_pairs) - 1) |-> FallbackVerdict(reason)]]
FallbackList(match_pairs, reason) ==
    [type |-> "list", items |-> [i \in 1..Len(match_pairs) |-> FallbackVerdict(reason)]]

(* The answer text is a sequence of tokens: a json fence, a bare fence and  *)
(* the text between them.  A payload token stands for a JSON text: a list   *)
(* with the given items, an object or a string of the given size, a number, *)
(* or text that json.loads rejects.                                         *)
FenceJson == [tok |-> "fence_json", json |-> "", items |-> <<>>, size |-> 0]
Fence == [tok |-> "fence", json |-> "", items |-> <<>>, size |-> 0]
Payload(j, its, n) == [tok |-> "payload", json |-> j, items |-> its, size |-> n]

IsFenceToken(t) == t.tok \in {"fence_json", "fence"}

(* text.split(sep)[1].split(fence)[0]: what follows the first token sep up  *)
(* to the next fence                                                        *)
RECURSIVE UpToFence(_)
UpToFence(toks) ==
    IF toks = <<>> \/ IsFenceToken(Head(toks)) THEN <<>>
    ELSE <<Head(toks)>> \o UpToFence(Tail(toks))

RECURSIVE AfterFirst(_, _)
AfterFirst(toks, seps) ==
    IF toks = <<>> THEN <<>>
    ELSE IF Head(toks).tok \in seps THEN Tail(toks)
    ELSE AfterFirst(Tail(toks), seps)

Contains(toks, seps) == \E i \in DOMAIN toks : toks[i].tok \in seps

(* the code-fence stripping of the answer *)
StripFence(text) ==
    IF Contains(text, {"fence_json"})
    THEN UpToFence(AfterFirst(text, {"fence_json"}))
    ELSE IF Contains(text, {"fence", "fence_json"})
    THEN UpToFence(AfterFirst(text, {"fence"}))
    ELSE text

(* json.loads(text): the parsed value, or "raise" *)
JsonLoads(text) ==
    IF Len(text) # 1 \/ text[1].tok # "payload" \/ text[1].json = "invalid"
    THEN [type |-> "raise", items |-> <<>>]
    ELSE IF text[1].json = "list" THEN [type |-> "list", items |-> text[1].items]
    ELSE IF text[1].json = "number" THEN [type |-> "number", items |-> <<>>]
    ELSE \* an object iterates over its keys, a string over its characters
         [type |-> text[1].json, items |-> [i \in 1..text[1].size |-> NotAnObject]]

(* gemini_verify_batch(match_pairs) when the service answers resp *)
gemini_verify_batch(match_pairs, resp) ==
    IF match_pairs = <<>> THEN [value |-> [type |-> "list", items |-> <<>>], fallback |-> FALSE]
    ELSE IF resp.kind = "error"
    THEN [value |-> FallbackList(match_pairs, "API"), fallback |-> TRUE]
    ELSE LET parsed_results == JsonLoads(StripFence(resp.text)) IN
         IF parsed_results.type = "raise"
         THEN [value |-> FallbackList(match_pairs, "API"), fallback |-> TRUE]
         ELSE IF parsed_results.type = "number"       \* len() raises TypeError
         THEN [value |-> FallbackList(match_pairs, "API"), fallback |-> TRUE]
         ELSE IF Len(parsed_results.items) # Len(match_pairs)
         THEN [value |-> FallbackList(match_pairs, "batch"), fallback |-> TRUE]
         ELSE [value |-> parsed_results, fallback |-> FALSE]

-----------------------------------------------------------------------------
(* Comparison dialog: show_comparison_dialog from the candidate list on *)

(* "candidates_to_verify[:MAX_CANDIDATES_PER_CALL]" when there are more *)
CapCandidates_OffByOne(cands) ==
    IF Len(cands) >= MAX_CANDIDATES_PER_CALL
    THEN SubSeq(cands, 1, MAX_CANDIDATES_PER_CALL - 1)
    ELSE cands
CapCandidates(cands) ==
    IF Len(cands) > MAX_CANDIDATES_PER_CALL
    THEN SubSeq(cands, 1, MAX_CANDIDATES_PER_CALL)
    ELSE cands

(* zip(candidates_to_verify, all_results) *)
RECURSIVE Zip_Crossed(_, _)
Zip_Crossed(a, b) ==
    IF a = <<>> \/ b = <<>> THEN <<>>
    ELSE <<[match |-> Head(a), result |-> b[Len(b)]] >>
         \o Zip_Crossed(Tail(a), SubSeq(b, 1, Len(b) - 1))
RECURSIVE Zip(_, _)
Zip(a, b) ==
    IF a = <<>> \/ b = <<>> THEN <<>>
    ELSE <<[match |-> Head(a), result |-> Head(b)] >> \o Zip(Tail(a), Tail(b))

(* the loop over zip(...): result.get('is_match', False) raises on an item  *)
(* that is not an object; the pairs built before it remain                  *)
RECURSIVE PairedUntilCrash(_)
PairedUntilCrash(zipped) ==
    IF zipped = <<>> \/ ~Head(zipped).result.isdict THEN <<>>
    ELSE <<[match |-> Head(zipped).match, result |-> Head(zipped).result,
            is_match |-> Head(zipped).result.is_match]>>
         \o PairedUntilCrash(Tail(zipped))

DialogPrices == {NaN, 50, 100}
Items == {Verdict(TRUE, "high"), Verdict(FALSE, "low"), EmptyObject, NotAnObject}

SeqsUpTo(S, n) == UNION {[1..k -> S] : k \in 0..n}

(* the answers tried for a batch of n pairs *)
PayloadsFor(n) ==
    IF n <= MaxVaried
    THEN {Payload("list", its, 0) : its \in SeqsUpTo(Items, n + 1)}
         \cup {Payload(j, <<>>, k) : j \in {"object", "string"}, k \in 0..(n + 1)}
         \cup {Payload("number", <<>>, 0), Payload("invalid", <<>>, 0)}
    ELSE {Payload("list", [i \in 1..n |-> Verdict(i % 2 = 0, "high")], 0),
          Payload("list", [i \in 1..(n - 1) |-> Verdict(TRUE, "high")], 0)}

TextsFor(n) ==
    UNION {{<<pl>>, <<FenceJson, pl, Fence>>, <<Fence, pl, Fence>>, <<Fence, pl>>,
            <<pl, FenceJson>>} : pl \in PayloadsFor(n)}

ResponsesFor(n) ==
    {[kind |-> "error", text |-> <<>>]}
    \cup {[kind |-> "text", text |-> t] : t \in TextsFor(n)}

(* the candidates of one source product as the similarity map stores them:  *)
(* similarity never increases along the list                                *)
CandidateLists ==
    UNION {{[k \in 1..n |-> [target_id |-> k, target_price |-> ps[k],
                              similarity |-> threshold + ((n - k) \div 2)]]
              : ps \in IF n <= MaxVaried THEN [1..n -> DialogPrices]
                                         ELSE {[k \in 1..n |-> 50 + (k % 3)]}}
           : n \in 0..MaxCandidates}

DlgInit ==
    /\ stage1_matches_list \in CandidateLists
    /\ candidates_to_verify = <<>> /\ all_pairs = <<>>
    /\ truncation_warned = FALSE /\ all_results = NoValue /\ used_fallback = FALSE
    /\ response = NoResponse /\ verified_results = <<>>
    /\ ranked_results = <<>> /\ dlg_pc = "open"
    /\ ScrapeIdle /\ SimIdle /\ RankIdle /\ SearchIdle /\ LoadIdle /\ SessIdle /\ FieldIdle /\ LogIdle

(* the dialog for the selected source product: cap, one batch call, pairing *)
(* by position, ranking                                                     *)
ShowComparisonDialog ==
    /\ dlg_pc = "open"
    /\ IF stage1_matches_list = <<>>
       THEN /\ dlg_pc' = "no_match"
            /\ UNCHANGED <<candidates_to_verify, all_pairs, truncation_warned,
                           all_results, used_fallback, response, verified_results,
                           ranked_results>>
       ELSE LET capped == CapCandidates(stage1_matches_list)
                pairs == [i \in 1..Len(capped) |->
                            [pchome_title |-> capped[i].target_id,
                             pchome_price |-> capped[i].target_price,
                             similarity |-> capped[i].similarity]]
            IN
            /\ truncation_warned' = (Len(stage1_matches_list) > MAX_CANDIDATES_PER_CALL)
            /\ candidates_to_verify' = capped
            /\ all_pairs' = pairs
            /\ \E resp \in ResponsesFor(Len(pairs)) :
                  LET ret == gemini_verify_batch(pairs, resp)
                      zipped == Zip(capped, ret.value.items)
                      paired == PairedUntilCrash(zipped)
                  IN
                  /\ response' = resp
                  /\ all_results' = ret.value
                  /\ used_fallback' = ret.fallback
                  /\ verified_results' = paired
                  /\ IF Len(paired) < Len(zipped)
                     THEN dlg_pc' = "crashed" /\ UNCHANGED ranked_results
                     ELSE dlg_pc' = "shown"
                          /\ ranked_results' = quicksort_by_price(paired)
    /\ UNCHANGED stage1_matches_list
    /\ UNCHANGED <<scrapeVars, simVars, rankVars, searchVars, loadVars, sessVars, fieldVars, logVars>>

DlgNext == ShowComparisonDialog

SpecDialog == DlgInit /\ [][DlgNext]_vars

(* the order of the docstring: matched items first, then the lower price,   *)
(* a missing or NaN price counting as +infinity                             *)
SortsBefore(a, b) ==
    LET key(x) == IF x.match.target_price \in {NaN, NoPrice}
                  THEN Inf ELSE x.match.target_price
    IN \/ a.is_match /\ ~b.is_match
       \/ a.is_match = b.is_match /\ key(a) < key(b)

(* a stable sort by that order: x goes behind every item it does not sort   *)
(* before                                                                   *)
RECURSIVE StableInsert(_, _)
StableInsert(sorted, x) ==
    IF sorted = <<>> THEN <<x>>
    ELSE IF SortsBefore(x, Head(sorted))
         THEN <<x>> \o sorted
         ELSE <<Head(sorted)>> \o StableInsert(Tail(sorted), x)

RECURSIVE StableSort(_)
StableSort(items) ==
    IF items = <<>> THEN <<>>
    ELSE StableInsert(StableSort(SubSeq(items, 1, Len(items) - 1)), items[Len(items)])

(* C19: for every input list quicksort_by_price returns what a stable sort  *)
(* by (matched before unmatched, then target price ascending with a missing *)
(* or NaN price as +infinity) returns: the same items, those of equal key   *)
(* in their input order.                                                    *)
C19_EqualsStableSort ==
    rank_pc = "done" => rank_out = StableSort(rank_in)

(* matched 100, matched 50, matched 100, matched 50 come out as the items   *)
(* 2, 4, 1, 3: each pair of equal price in its input order                  *)
C19_Witness ==
    /\ rank_pc = "done" /\ Len(rank_in) = 4
    /\ \A k \in 1..4 : rank_in[k].is_match
    /\ rank_in[1].match.target_price = 100 /\ rank_in[2].match.target_price = 50
    /\ rank_in[3].match.target_price = 100 /\ rank_in[4].match.target_price = 50
    /\ [k \in 1..4 |-> rank_out[k].match.target_id] = <<2, 4, 1, 3>>

-----------------------------------------------------------------------------
(* handle_product_search: the two scraping workers and the supervising loop *)

scrapeOther == <<platform, max_products, pc, products, seen_skus, product_id,
                 page, consecutive_empty_pages, n_elements, elem_i,
                 page_products_count, consecutive_duplicates, driver, result,
                 requests, last_check, cancel_observed, elemCancel, pageCancel,
                 parsed_after_cancel, empty_search, page_failure, live_sessions,
                 progress, empty_run, total_available>>

SearchFrame == UNCHANGED <<scrapeOther, simVars, dlgVars, rankVars, loadVars, fieldVars, logVars>>

Directions == {"momo_to_pchome", "pchome_to_momo"}

(* st.session_state when a search is submitted: nothing loaded, the sample  *)
(* product sets, or the sets and the map of an earlier search               *)
PriorSessions ==
    {[df |-> EmptyFrame, map |-> EmptyMap, searches |-> 0],
     [df |-> SampleData, map |-> EmptyMap, searches |-> 0],
     [df |-> 1, searches |-> 1,
      map |-> [computed |-> TRUE, momo |-> 1, pchome |-> 1,
               direction |-> "momo_to_pchome"]]}

(* queue.Queue.put: the message joins the end of the queue *)
Put_InFront(q, msg) == <<msg>> \o q
Put(q, msg) == Append(q, msg)

(* after momo_thread.start() and pchome_thread.start(); the form handler    *)
(* has stored the match direction                                           *)
SearchInit ==
    /\ cancel_search = FALSE
    /\ worker = [p \in Platforms |-> "fetch"]
    /\ reported = [p \in Platforms |-> 0]
    /\ queue = [p \in Platforms |-> <<>>]
    /\ results = [p \in Platforms |-> "None"]
    /\ done = [p \in Platforms |-> FALSE]
    /\ sup_pc = "guard"
    /\ consumed = [p \in Platforms |-> <<>>]
    /\ \E prior \in PriorSessions :
          /\ session_momo_df = prior.df /\ session_pchome_df = prior.df
          /\ session_similarities = prior.map
          /\ search_count = prior.searches
    /\ match_direction \in Directions
    /\ ScrapeIdle /\ SimIdle /\ DlgIdle /\ RankIdle /\ LoadIdle /\ FieldIdle /\ LogIdle

(* the user presses the cancel button *)
UserCancel ==
    /\ sup_pc \in {"guard", "cancel_check", "poll_momo", "poll_pchome"}
    /\ cancel_search = FALSE
    /\ cancel_search' = TRUE
    /\ UNCHANGED <<worker, reported, queue, results, done, sup_pc, cancel_flag, consumed>>
    /\ UNCHANGED sessVars
    /\ SearchFrame

(* momo_callback / pchome_callback: the scrape reports progress *)
WorkerProgress(p) ==
    /\ worker[p] = "fetch" /\ reported[p] < MaxProgress
    /\ queue' = [queue EXCEPT ![p] = Put(@, [kind |-> "current", n |-> reported[p] + 1])]
    /\ reported' = [reported EXCEPT ![p] = @ + 1]
    /\ UNCHANGED <<cancel_search, worker, results, done, sup_pc, cancel_flag, consumed>>
    /\ UNCHANGED sessVars
    /\ SearchFrame

(* results[p] = fetch_products_for_*(...): the scrape returns a list *)
WorkerReturn(p) ==
    /\ worker[p] = "fetch"
    /\ \E r \in {"list", "empty"} : results' = [results EXCEPT ![p] = r]
    /\ worker' = [worker EXCEPT ![p] = "recorded"]
    /\ UNCHANGED <<cancel_search, reported, queue, done, sup_pc, cancel_flag, consumed>>
    /\ UNCHANGED sessVars
    /\ SearchFrame

(* "except Exception": results[p] = [] *)
WorkerRaise(p) ==
    /\ worker[p] = "fetch"
    /\ results' = [results EXCEPT ![p] = "empty"]
    /\ worker' = [worker EXCEPT ![p] = "failed"]
    /\ UNCHANGED <<cancel_search, reported, queue, done, sup_pc, cancel_flag, consumed>>
    /\ UNCHANGED sessVars
    /\ SearchFrame

(* queue.put({'done': True}) / queue.put({'error': ...}); the thread ends *)
WorkerSignal(p) ==
    /\ worker[p] \in {"recorded", "failed"}
    /\ queue' = [queue EXCEPT ![p] =
                    Put(@, [kind |-> IF worker[p] = "recorded" THEN "done" ELSE "error",
                            n |-> 0])]
    /\ worker' = [worker EXCEPT ![p] = "ended"]
    /\ UNCHANGED <<cancel_search, reported, results, done, sup_pc, cancel_flag, consumed>>
    /\ UNCHANGED sessVars
    /\ SearchFrame

(* "while not (momo_done and pchome_done)" *)
SupGuard ==
    /\ sup_pc = "guard"
    /\ sup_pc' = IF ~(done["momo"] /\ done["pchome"]) THEN "cancel_check" ELSE "read"
    /\ UNCHANGED <<cancel_search, worker, reported, queue, results, done, cancel_flag, consumed>>
    /\ UNCHANGED sessVars
    /\ SearchFrame

(* where the loop goes after the check of the cancel request: "return      *)
(* False" or the polling of the queues                                      *)
AfterCancelCheck_Continue(requested) == "poll_momo"
AfterCancelCheck(requested) == IF requested THEN "cancelled" ELSE "poll_momo"

(* "if st.session_state.cancel_search": set the flag, return False *)
SupCancelCheck ==
    /\ sup_pc = "cancel_check"
    /\ cancel_flag' = (IF cancel_search THEN TRUE ELSE cancel_flag)
    /\ sup_pc' = AfterCancelCheck(cancel_search)
    /\ UNCHANGED <<cancel_search, worker, reported, queue, results, done, consumed>>
    /\ UNCHANGED sessVars
    /\ SearchFrame

(* which messages end the polling of a worker: 'done' and 'error' *)
MarksDone_Any(msg) == TRUE
MarksDone_DoneOnly(msg) == msg.kind = "done"
MarksDone(msg) == msg.kind \in {"done", "error"}

(* "if not momo_done: momo_queue.get_nowait()" and the same for PChome *)
SupPoll(p) ==
    /\ sup_pc = (IF p = "momo" THEN "poll_momo" ELSE "poll_pchome")
    /\ IF ~done[p] /\ queue[p] # <<>>
       THEN /\ queue' = [queue EXCEPT ![p] = Tail(@)]
            /\ consumed' = [consumed EXCEPT ![p] = Append(@, Head(queue[p]))]
            /\ done' = [done EXCEPT ![p] = MarksDone(Head(queue[p]))]
       ELSE UNCHANGED <<queue, done, consumed>>
    /\ sup_pc' = (IF p = "momo" THEN "poll_pchome" ELSE "guard")
    /\ UNCHANGED <<cancel_search, worker, reported, results, cancel_flag>>
    /\ UNCHANGED sessVars
    /\ SearchFrame

(* the product set stored for a result: a frame of this search, or an      *)
(* empty frame for an empty list                                            *)
StoredFrame(r, searches) == IF r = "list" THEN searches + 1 ELSE EmptyFrame

(* after the loop: results['momo'] and results['pchome'] are read and       *)
(* stored; the similarity computation starts when both product sets are     *)
(* non-empty                                                                *)
SupRead ==
    /\ sup_pc = "read"
    /\ sup_pc' = IF results["momo"] = "list" /\ results["pchome"] = "list"
                 THEN "compute" ELSE "failed"
    /\ session_momo_df' = StoredFrame(results["momo"], search_count)
    /\ session_pchome_df' = StoredFrame(results["pchome"], search_count)
    /\ UNCHANGED <<session_similarities, match_direction, search_count>>
    /\ UNCHANGED <<cancel_search, worker, reported, queue, results, done, cancel_flag, consumed>>
    /\ SearchFrame

(* calculate_similarities_in_memory(...) and the end of the handler *)
SupCompute ==
    /\ sup_pc = "compute"
    /\ sup_pc' = "finished"
    /\ \E computed \in BOOLEAN :
          session_similarities' =
              IF computed
              THEN [computed |-> TRUE, momo |-> session_momo_df,
                    pchome |-> session_pchome_df, direction |-> match_direction]
              ELSE EmptyMap
    /\ UNCHANGED <<session_momo_df, session_pchome_df, match_direction, search_count>>
    /\ UNCHANGED <<cancel_search, worker, reported, queue, results, done, cancel_flag, consumed>>
    /\ SearchFrame

SearchNext ==
    \/ UserCancel
    \/ \E p \in Platforms : WorkerProgress(p)
    \/ \E p \in Platforms : WorkerReturn(p)
    \/ \E p \in Platforms : WorkerRaise(p)
    \/ \E p \in Platforms : WorkerSignal(p)
    \/ SupGuard
    \/ SupCancelCheck
    \/ \E p \in Platforms : SupPoll(p)
    \/ SupRead
    \/ SupCompute

SpecSearch == SearchInit /\ [][SearchNext]_vars

(* the steps of the supervising loop and of the code after it *)
SupStep ==
    \/ SupGuard
    \/ SupCancelCheck
    \/ \E p \in Platforms : SupPoll(p)
    \/ SupRead
    \/ SupCompute

(* the steps by which the thread of a worker comes to its end: the scrape   *)
(* call returns or raises, the terminal message is put                      *)
WorkerEnds(p) ==
    \/ WorkerReturn(p)
    \/ WorkerRaise(p)
    \/ WorkerSignal(p)

(* a search submitted on the sample product sets *)
SearchInitSample ==
    /\ SearchInit
    /\ session_momo_df = SampleData /\ session_similarities = EmptyMap
    /\ match_direction = "momo_to_pchome"

(* the main thread and the two worker threads each keep running, and both   *)
(* scrape calls return: a step a thread can take is eventually taken        *)
SpecSearchLive ==
    /\ SearchInitSample /\ [][SearchNext]_vars
    /\ WF_vars(SupStep)
    /\ \A p \in Platforms : WF_vars(WorkerEnds(p))

(* C14: the supervising loop reads the results and starts the embedding /   *)
(* similarity computation only after both workers have recorded their       *)
(* result and signalled their end; it never reads the result of a worker    *)
(* that is still running.                                                   *)
C14_ComputeAfterBothWorkers ==
    sup_pc \in {"read", "compute", "failed", "finished"} =>
        \A p \in Platforms :
            /\ worker[p] = "ended"
            /\ results[p] # "None"
            /\ done[p]

(* the computation started after one worker had reported progress and the   *)
(* other had not                                                            *)
C14_Witness ==
    /\ sup_pc = "compute"
    /\ reported["momo"] = MaxProgress /\ reported["pchome"] = 0

(* what a worker has put on its queue so far, in the order it put it: its   *)
(* progress messages, then its terminal message once the thread has ended   *)
RECURSIVE ProgressMessages(_)
ProgressMessages(n) ==
    IF n = 0 THEN <<>> ELSE Append(ProgressMessages(n - 1), [kind |-> "current", n |-> n])

IsTerminal(msg) == msg.kind \in {"done", "error"}
TerminalMessages(p) == SelectSeq(consumed[p] \o queue[p], IsTerminal)

(* C32: for each worker, the messages the supervising loop has taken,       *)
(* followed by those still in the queue, are the messages the worker has    *)
(* put, in the order it put them, and a terminal message comes after every  *)
(* progress message: nothing is lost or reordered.                          *)
C32_ConsumedInProducedOrder ==
    \A p \in Platforms :
        LET all == consumed[p] \o queue[p] IN
        /\ SubSeq(all, 1, reported[p]) = ProgressMessages(reported[p])
        /\ Len(all) = reported[p] + (IF worker[p] = "ended" THEN 1 ELSE 0)
        /\ worker[p] = "ended" => IsTerminal(all[Len(all)])

LoopExited == sup_pc \in {"read", "compute", "failed", "finished"}

(* C34: a worker thread puts one terminal message, none before its thread   *)
(* has stored its result and ended, and no message after it; and unless a   *)
(* cancellation is requested, the supervising loop eventually exits.        *)
C34_OneTerminalMessageAndExit ==
    /\ [](\A p \in Platforms :
            /\ Len(TerminalMessages(p)) = (IF worker[p] = "ended" THEN 1 ELSE 0)
            /\ worker[p] = "ended" =>
                  /\ results[p] # "None"
                  /\ IsTerminal((consumed[p] \o queue[p])[reported[p] + 1]))
    /\ <>(cancel_search \/ LoopExited)

(* no cancellation, one worker returned at once, the other after all of its *)
(* progress reports, and the handler went on to its end                     *)
C34_Witness ==
    /\ sup_pc = "finished" /\ ~cancel_search
    /\ consumed["momo"] = <<[kind |-> "done", n |-> 0]>>
    /\ Len(consumed["pchome"]) = MaxProgress + 1
    /\ queue["pchome"] = <<>>

(* C35: the step in which the supervising loop sees the cancel request sets *)
(* the flag and returns, leaving the stored product sets and the stored     *)
(* similarity map as they were; after it the handler takes no step, so no   *)
(* result of a worker is read; and the flag only ever goes from false to    *)
(* true, in that step of the supervising loop and in no step of a worker.   *)
C35_CancelLeavesSessionAlone ==
    [][/\ (sup_pc # "cancelled" /\ sup_pc' = "cancelled")
            => (sup_pc = "cancel_check" /\ cancel_search /\ cancel_flag'
                /\ UNCHANGED sessVars)
       /\ sup_pc = "cancelled" => UNCHANGED <<sup_pc, sessVars>>
       /\ (cancel_search /\ sup_pc = "cancel_check") => sup_pc' \in {"cancel_check", "cancelled"}
       /\ cancel_flag' # cancel_flag
            => (~cancel_flag /\ cancel_flag' /\ sup_pc = "cancel_check"
                /\ sup_pc' = "cancelled" /\ UNCHANGED <<worker, queue, results>>)]_vars

(* the handler has returned on a cancel request while the momo worker had   *)
(* already stored a list: the sets and the map of the earlier search remain *)
C35_Witness ==
    /\ sup_pc = "cancelled" /\ cancel_flag
    /\ results["momo"] = "list" /\ worker["pchome"] = "fetch"
    /\ session_momo_df = 1 /\ session_similarities.computed

(* the loop has left after taking every progress message of the momo worker *)
(* and then its error message, and the single message of the PChome worker  *)
C32_Witness ==
    /\ sup_pc = "read"
    /\ Len(consumed["momo"]) = MaxProgress + 1
    /\ consumed["momo"][MaxProgress + 1].kind = "error"
    /\ consumed["pchome"] = <<[kind |-> "done", n |-> 0]>>

-----------------------------------------------------------------------------
(* Properties of the verdict aggregator and of the dialog *)

BatchSize == Len(all_pairs)
Called == dlg_pc \in {"shown", "crashed"}

(* the answer is a JSON list of exactly n verdict objects *)
WellFormedAnswer(resp, n) ==
    /\ resp.kind = "text"
    /\ LET v == JsonLoads(StripFence(resp.text)) IN
        /\ v.type = "list"
        /\ Len(v.items) = n
        /\ \A i \in DOMAIN v.items : v.items[i].isdict /\ v.items[i].complete

AllFallback(v, n) ==
    /\ v.type = "list"
    /\ Len(v.items) = n
    /\ \A i \in DOMAIN v.items :
          /\ v.items[i].isdict /\ v.items[i].complete
          /\ v.items[i].is_match = FALSE
          /\ v.items[i].confidence = "low"

(* C2: for a batch of N >= 1 pairs, whenever the answer of the judgment     *)
(* service is malformed in any way (service error, unparseable, not a list  *)
(* of N verdict objects), gemini_verify_batch returns exactly N entries,    *)
(* each with is_match = false and confidence = "low".                       *)
C2_FallbackTotality ==
    (Called /\ BatchSize >= 1 /\ ~WellFormedAnswer(response, BatchSize))
        => AllFallback(all_results, BatchSize)

(* C3: the value returned by gemini_verify_batch for N pairs has N entries, *)
(* and the caller attaches entry i to candidate i: every judged match is    *)
(* (candidate i, entry i) for its own position i, also after ranking.       *)
C3_OrderCorrelation ==
    Called =>
        /\ Len(all_results.items) = Len(candidates_to_verify)
        /\ \A i \in DOMAIN verified_results :
              /\ verified_results[i].match = candidates_to_verify[i]
              /\ verified_results[i].result = all_results.items[i]
        /\ dlg_pc = "shown" =>
              /\ Len(verified_results) = Len(candidates_to_verify)
              /\ \A k \in DOMAIN ranked_results :
                    \E i \in DOMAIN candidates_to_verify :
                        /\ ranked_results[k].match = candidates_to_verify[i]
                        /\ ranked_results[k].result = all_results.items[i]

(* two candidates judged by the service with two different verdicts *)
C3_Witness ==
    /\ dlg_pc = "shown" /\ ~used_fallback
    /\ Len(verified_results) = 2
    /\ verified_results[1].result # verified_results[2].result

(* C6: with more than 50 candidates exactly the first 50 of the similarity- *)
(* descending list are sent and the truncation is signalled; with 50 or     *)
(* fewer all are sent and nothing is signalled.                             *)
C6_CapEnforcement ==
    dlg_pc # "open" =>
        /\ IF Len(stage1_matches_list) > 50
           THEN Len(all_pairs) = 50 /\ truncation_warned
           ELSE Len(all_pairs) = Len(stage1_matches_list) /\ ~truncation_warned
        /\ \A i \in DOMAIN all_pairs :
              /\ all_pairs[i].pchome_title = stage1_matches_list[i].target_id
              /\ all_pairs[i].similarity = stage1_matches_list[i].similarity
        /\ \A i \in DOMAIN all_pairs, k \in DOMAIN stage1_matches_list :
              i < k => all_pairs[i].similarity >= stage1_matches_list[k].similarity
        /\ Called => Len(verified_results) <= Len(all_pairs)

(* 52 candidates: 50 verified, truncation signalled *)
C6_Witness ==
    /\ dlg_pc = "shown" /\ Len(stage1_matches_list) = 52
    /\ truncation_warned /\ Len(verified_results) = 50

-----------------------------------------------------------------------------
(* The retry loop of a page load: momo, every page; PChome, the search page *)

LoadFrame == UNCHANGED <<scrapeVars, simVars, dlgVars, rankVars, searchVars, sessVars, fieldVars, logVars>>

(* "retry_count = 0; max_retries = 3; page_loaded = False" *)
LoadInit ==
    /\ retry_count = 0 /\ load_ok = FALSE /\ load_pc = "loop"
    /\ load_errors = <<>> /\ load_gets = 0 /\ load_sessions = 0
    /\ ScrapeIdle /\ SimIdle /\ DlgIdle /\ RankIdle /\ SearchIdle /\ SessIdle /\ FieldIdle /\ LogIdle

(* what str(e) is matched against in the handler *)
Transient == {"invalid session id", "ERR_CONNECTION"}
LoadErrors == Transient \cup {"other"}

(* "while retry_count < max_retries and not page_loaded" *)
RetryGuard(count, loaded) == count < max_retries /\ ~loaded

(* one pass of the loop body in which driver.get(search_url) returns; the    *)
(* session check before it may have replaced the browser                    *)
LoadSucceeds ==
    /\ load_pc = "loop" /\ RetryGuard(retry_count, load_ok)
    /\ \E session_valid \in BOOLEAN :
          load_sessions' = load_sessions + (IF session_valid THEN 0 ELSE 1)
    /\ load_gets' = load_gets + 1
    /\ load_ok' = TRUE
    /\ UNCHANGED <<retry_count, load_errors, load_pc>>
    /\ LoadFrame

(* one pass of the loop body that ends in "except Exception as e":           *)
(* reached_get = FALSE when the exception came before driver.get was called *)
LoadFails ==
    /\ load_pc = "loop" /\ RetryGuard(retry_count, load_ok)
    /\ \E session_valid \in BOOLEAN, reached_get \in BOOLEAN, e \in LoadErrors,
          recreated \in BOOLEAN :
          /\ (~reached_get => ~session_valid)
          /\ load_gets' = load_gets + (IF reached_get THEN 1 ELSE 0)
          /\ retry_count' = retry_count + 1
          /\ load_errors' = Append(load_errors, e)
          /\ IF e = "invalid session id"
             THEN IF recreated
                  THEN /\ load_sessions' = load_sessions
                                             + (IF session_valid \/ ~reached_get THEN 0 ELSE 1) + 1
                       /\ load_pc' = "loop"
                  ELSE /\ load_sessions' = load_sessions
                                             + (IF session_valid \/ ~reached_get THEN 0 ELSE 1)
                       /\ load_pc' = "raised"
             ELSE /\ load_sessions' = load_sessions
                                        + (IF session_valid \/ ~reached_get THEN 0 ELSE 1)
                  /\ load_pc' = IF e = "ERR_CONNECTION" THEN "loop" ELSE "given_up"
    /\ UNCHANGED load_ok
    /\ LoadFrame

(* the guard of the while loop is false: the page is loaded, or "if not     *)
(* page_loaded: break"                                                      *)
LoadLoopEnds ==
    /\ load_pc = "loop" /\ ~RetryGuard(retry_count, load_ok)
    /\ load_pc' = IF load_ok THEN "loaded" ELSE "given_up"
    /\ UNCHANGED <<retry_count, load_ok, load_errors, load_gets, load_sessions>>
    /\ LoadFrame

LoadNext ==
    \/ LoadSucceeds
    \/ LoadFails
    \/ LoadLoopEnds

SpecLoad == LoadInit /\ [][LoadNext]_vars

(* C24 as stated: when every failure of a page load is transient (invalid   *)
(* session or connection error), the load is given up only after the first  *)
(* attempt and 3 retries have failed, that is after 4 failed attempts.      *)
C24_ThreeRetriesBeforeGivingUp ==
    (load_pc = "given_up" /\ \A k \in DOMAIN load_errors : load_errors[k] \in Transient)
        => Len(load_errors) = 1 + 3

-----------------------------------------------------------------------------
(* The session state across searches: search form handling and             *)
(* handle_product_search as seen from st.session_state                      *)

SessFrame == UNCHANGED <<scrapeVars, simVars, dlgVars, rankVars, searchVars, loadVars, fieldVars, logVars>>

(* "Initialise Session State": load_local_data gives the sample product     *)
(* sets or two empty frames; similarities = {}; no match_direction stored,  *)
(* read with the default 'momo_to_pchome'                                   *)
SessInit ==
    /\ \E sample \in BOOLEAN :
          /\ session_momo_df = (IF sample THEN SampleData ELSE EmptyFrame)
          /\ session_pchome_df = (IF sample THEN SampleData ELSE EmptyFrame)
    /\ session_similarities = EmptyMap
    /\ match_direction = "momo_to_pchome"
    /\ search_count = 0
    /\ ScrapeIdle /\ SimIdle /\ DlgIdle /\ RankIdle /\ SearchIdle /\ LoadIdle /\ FieldIdle /\ LogIdle

(* a search is submitted with match direction d and cancelled: the form     *)
(* handler stores the direction, the supervising loop returns False         *)
SearchCancelled ==
    /\ search_count < MaxSearches
    /\ search_count' = search_count + 1
    /\ \E d \in Directions : match_direction' = d
    /\ UNCHANGED <<session_momo_df, session_pchome_df, session_similarities>>
    /\ SessFrame

(* a search is submitted with match direction d and both workers end; a     *)
(* product set that came back empty is stored as an empty frame; the map is *)
(* recomputed only when both sets are non-empty, computed = FALSE: the      *)
(* computation failed and returned {}                                       *)
SearchCompleted ==
    /\ search_count < MaxSearches
    /\ search_count' = search_count + 1
    /\ \E d \in Directions, momo_found \in BOOLEAN, pchome_found \in BOOLEAN,
          computed \in BOOLEAN :
          /\ match_direction' = d
          /\ session_momo_df' = (IF momo_found THEN search_count + 1 ELSE EmptyFrame)
          /\ session_pchome_df' = (IF pchome_found THEN search_count + 1 ELSE EmptyFrame)
          /\ session_similarities' =
                IF momo_found /\ pchome_found
                THEN IF computed
                     THEN [computed |-> TRUE, momo |-> search_count + 1,
                           pchome |-> search_count + 1, direction |-> d]
                     ELSE EmptyMap
                ELSE session_similarities
    /\ SessFrame

SessNext ==
    \/ SearchCancelled
    \/ SearchCompleted

SpecSession == SessInit /\ [][SessNext]_vars

(* the page goes past its st.stop() checks and a product can be selected *)
DialogCanOpen == session_momo_df # EmptyFrame /\ session_pchome_df # EmptyFrame

(* C23: whenever a comparison dialog can be opened, the stored similarity   *)
(* map is empty or was computed from the stored pair of product sets and    *)
(* for the stored match direction.                                          *)
C23_MapMatchesSessionState ==
    DialogCanOpen =>
        \/ ~session_similarities.computed
        \/ /\ session_similarities.momo = session_momo_df
           /\ session_similarities.pchome = session_pchome_df
           /\ session_similarities.direction = match_direction

-----------------------------------------------------------------------------
(* The image and price fields of one listing element.  A url is the         *)
(* sequence of its parts ("https:", "//", host, "/", file ...), a price     *)
(* text the sequence of its words and digit runs.                           *)

FieldFrame == UNCHANGED <<scrapeVars, simVars, dlgVars, rankVars, searchVars, loadVars, sessVars, logVars>>

Sites == {"momo", "pchome"}

(* ---- urls ---- *)
AboutBlank == <<"about:blank">>
MomoHosts == {"img.momoshop.com.tw", "www.momoshop.com.tw"}
PchomeHosts == {"img.pchome.com.tw", "24h.pchome.com.tw"}

(* the non-product names a part of a url spells out *)
PatternsIn(part) ==
    CASE part = "placeholder.png" -> {"placeholder"}
      [] part = "icon.png" -> {"icon"}
      [] part = "logo.png" -> {"logo"}
      [] part = "data:image" -> {"data:image"}
      [] OTHER -> {}

(* len(part) *)
CharCount(part) ==
    CASE part = "https:" -> 6
      [] part = "//" -> 2
      [] part \in {"/", " ", ","} -> 1
      [] part = "cdn" -> 3
      [] part \in {"1x", "2x"} -> 2
      [] part = "goods.jpg" -> 9
      [] part \in {"icon.png", "logo.png"} -> 8
      [] part = "placeholder.png" -> 15
      [] part = "data:image" -> 10
      [] part = "about:blank" -> 11
      [] part = "?t=" -> 11
      [] OTHER -> 19                      \* a host of one of the two sites

RECURSIVE UrlLength(_)
UrlLength(u) == IF u = <<>> THEN 0 ELSE CharCount(Head(u)) + UrlLength(Tail(u))

Mentions(u, patterns) == \E i \in DOMAIN u : PatternsIn(u[i]) \cap patterns # {}
HasPart(u, parts) == \E i \in DOMAIN u : u[i] \in parts
StartsWith(u, part) == u # <<>> /\ u[1] = part
StartsWithSlash(u) == u # <<>> /\ u[1] \in {"/", "//"}

(* momo: exclude_patterns *)
exclude_patterns ==
    {"placeholder", "offical_tag", "official_tag", "ec-images", "icon", "logo",
     "banner", "_tag_", "tag.png", "tag.jpg", "data:image"}

(* momo: relative and protocol-relative urls made absolute *)
MomoAbsolute(u) ==
    IF StartsWith(u, "//") THEN <<"https:">> \o u
    ELSE IF StartsWithSlash(u) THEN <<"https:", "//", "www.momoshop.com.tw">> \o u
    ELSE IF ~StartsWith(u, "https:") THEN
        IF ~HasPart(u, MomoHosts) THEN <<"https:", "//", "img.momoshop.com.tw", "/">> \o u
        ELSE <<"https:", "//">> \o u
    ELSE u

(* momo: the date appended to an image of the site that has no query *)
MomoTimestamp(u) ==
    IF HasPart(u, MomoHosts) /\ ~HasPart(u, {"?", "?t="}) THEN u \o <<"?t=">> ELSE u

(* what a selector finds: no element, or an element with its attributes *)
NoSuchElement == [found |-> FALSE, src |-> None, lazy |-> None]

(* momo: src or data-src or data-original or data-lazy or data-image *)
FirstAttribute(f) == IF f.src # None THEN f.src ELSE f.lazy

(* momo: the loop over img_selectors, from the value image_url has *)
RECURSIVE MomoImageLoop(_, _)
MomoImageLoop(found, image_url) ==
    IF found = <<>> THEN image_url
    ELSE IF ~Head(found).found THEN MomoImageLoop(Tail(found), image_url)
    ELSE LET u == FirstAttribute(Head(found)) IN
         IF u # None /\ u # AboutBlank THEN
             IF Mentions(u, exclude_patterns) THEN MomoImageLoop(Tail(found), u)
             ELSE MomoTimestamp(MomoAbsolute(u))
         ELSE MomoImageLoop(Tail(found), u)

(* PChome: url.split(',')[0].strip().split(' ')[0] *)
RECURSIVE UpTo(_, _)
UpTo(u, stops) ==
    IF u = <<>> \/ Head(u) \in stops THEN <<>> ELSE <<Head(u)>> \o UpTo(Tail(u), stops)

FirstOfSrcset(u) == IF HasPart(u, {","}) THEN UpTo(u, {",", " "}) ELSE u

(* PChome: the test a candidate url passes *)
PchomeValidImage(u) ==
    /\ u # None
    /\ ~Mentions(u, {"placeholder"})
    /\ u # AboutBlank
    /\ ~StartsWith(u, "data:image")
    /\ UrlLength(u) > 10

(* PChome: "for url in potential_urls" over one element; the loop variable   *)
(* is the variable that held the product link                                *)
RECURSIVE PchomePotentialUrls(_, _)
PchomePotentialUrls(potential_urls, link) ==
    IF potential_urls = <<>> THEN [image_url |-> None, url |-> link]
    ELSE IF Head(potential_urls) = None
         THEN PchomePotentialUrls(Tail(potential_urls), None)
    ELSE LET u == FirstOfSrcset(Head(potential_urls)) IN
         IF PchomeValidImage(u) THEN [image_url |-> u, url |-> u]
         ELSE PchomePotentialUrls(Tail(potential_urls), u)

(* PChome: the loop over img_selectors *)
RECURSIVE PchomeImageLoop(_, _)
PchomeImageLoop(found, link) ==
    IF found = <<>> THEN [image_url |-> None, url |-> link]
    ELSE IF ~Head(found).found THEN PchomeImageLoop(Tail(found), link)
    ELSE LET r == PchomePotentialUrls(<<Head(found).src, Head(found).lazy>>, link) IN
         IF r.image_url # None THEN r ELSE PchomeImageLoop(Tail(found), r.url)

PchomeAbsolute(u) ==
    IF u = None THEN u
    ELSE IF StartsWith(u, "//") THEN <<"https:">> \o u
    ELSE IF StartsWithSlash(u) THEN <<"https:", "//", "24h.pchome.com.tw">> \o u
    ELSE IF ~StartsWith(u, "https:") THEN
        IF ~HasPart(u, PchomeHosts) THEN <<"https:", "//", "img.pchome.com.tw", "/">> \o u
        ELSE <<"https:", "//">> \o u
    ELSE u

(* PChome: data-image, data-img, data-pic, data-photo of the element itself *)
PchomeDataAttribute(image_url, test_url) ==
    IF image_url = None /\ test_url # None /\ UrlLength(test_url) > 10
       /\ StartsWith(test_url, "https:")
    THEN test_url ELSE image_url

(* ---- price texts ---- *)
Num(k) == [w |-> "", n |-> k]            \* a run of digits
Word(s) == [w |-> s, n |-> 0]            \* anything else
IsNumber(t) == t.w = ""

SeqMax(s) == CHOOSE m \in Range(s) : \A k \in Range(s) : k <= m
SeqMin(s) == CHOOSE m \in Range(s) : \A k \in Range(s) : m <= k

(* re.findall(r'\d+', text.replace(',', '')) *)
FindDigits(text) ==
    LET runs == SelectSeq(text, IsNumber) IN [i \in DOMAIN runs |-> runs[i].n]

OverTen(k) == k > 10
PotentialPrices(text) == SelectSeq(FindDigits(text), OverTen)

RECURSIVE Flatten(_)
Flatten(texts) == IF texts = <<>> THEN <<>> ELSE Head(texts) \o Flatten(Tail(texts))

(* momo: the numbers of the first price text that has a number over ten *)
RECURSIVE MomoFirstPriced(_)
MomoFirstPriced(texts) ==
    IF texts = <<>> THEN <<>>
    ELSE IF PotentialPrices(Head(texts)) # <<>> THEN PotentialPrices(Head(texts))
    ELSE MomoFirstPriced(Tail(texts))

(* momo: the selectors, then the whole text of the element *)
MomoPotentialPrices(texts, full_text) ==
    IF MomoFirstPriced(texts) # <<>> THEN MomoFirstPriced(texts)
    ELSE PotentialPrices(full_text)

MomoPriceOf(potential_prices) ==
    IF potential_prices = <<>> THEN 0 ELSE SeqMax(potential_prices)

(* PChome: keyword in text, for the words of a text.  The keywords of the   *)
(* source are written in Latin letters: "period" for the character qi,      *)
(* "per-period" for mei-qi, "installment" for fen-qi; the first is part of  *)
(* the other two.                                                           *)
InWord(keyword, word) ==
    word = keyword \/ (keyword = "period" /\ word \in {"per-period", "installment"})
HasKeyword(text, keywords) ==
    \E i \in DOMAIN text : \E k \in keywords : InWord(k, text[i].w)

PriceDivKeywords == {"period", "x", "X", "/", "per-period"}
LineKeywords == {"period", "x", "X", "/", "per-period", "installment"}

(* re.search(r'(\d+)', text) : 0 stands for no match *)
FirstNumber(text) == IF FindDigits(text) = <<>> THEN 0 ELSE Head(FindDigits(text))

ReasonablePrice(p) == 100 < p /\ p < 10000000

(* PChome, method 1: the o-prodPrice divs *)
RECURSIVE PriceDivs(_, _, _)
PriceDivs(texts, prices, installment_prices) ==
    IF texts = <<>> THEN [prices |-> prices, installment_prices |-> installment_prices]
    ELSE LET p == FirstNumber(Head(texts)) IN
         IF HasKeyword(Head(texts), PriceDivKeywords)
         THEN PriceDivs(Tail(texts), prices,
                        IF ReasonablePrice(p) THEN Append(installment_prices, p)
                        ELSE installment_prices)
         ELSE PriceDivs(Tail(texts),
                        IF ReasonablePrice(p) THEN Append(prices, p) ELSE prices,
                        installment_prices)

(* re.findall(r'\$[\d,]+', line), the ones of a reasonable size *)
RECURSIVE DollarAmounts(_)
DollarAmounts(line) ==
    IF Len(line) < 2 THEN <<>>
    ELSE IF line[1].w = "$" /\ IsNumber(line[2])
         THEN (IF ReasonablePrice(line[2].n) THEN <<line[2].n>> ELSE <<>>)
              \o DollarAmounts(Tail(Tail(line)))
    ELSE DollarAmounts(Tail(line))

(* PChome, method 2: the lines of the element's text *)
RECURSIVE LinePrices(_)
LinePrices(lines) ==
    IF lines = <<>> THEN <<>>
    ELSE IF HasKeyword(Head(lines), LineKeywords) THEN LinePrices(Tail(lines))
    ELSE DollarAmounts(Head(lines)) \o LinePrices(Tail(lines))

(* PChome, method 3: the c-prodInfoV2__salePrice element *)
SalePrice(text) == IF FirstNumber(text) > 100 THEN <<FirstNumber(text)>> ELSE <<>>

PchomePrices(texts, lines, sale) ==
    LET one == PriceDivs(texts, <<>>, <<>>).prices
        two == IF one # <<>> THEN one ELSE LinePrices(lines)
    IN IF two # <<>> THEN two ELSE SalePrice(sale)

(* PChome: the choice among the collected prices *)
PchomePriceOf(prices, installment_prices) ==
    IF prices = <<>> THEN 0
    ELSE IF Len(prices) = 1 THEN prices[1]
    ELSE LET candidate_price == SeqMin(prices)
             valid_prices == Range(prices) \ Range(installment_prices)
         IN IF installment_prices # <<>> /\ candidate_price \in Range(installment_prices)
            THEN IF valid_prices # {}
                 THEN CHOOSE m \in valid_prices : \A k \in valid_prices : m <= k
                 ELSE SeqMax(prices)
            ELSE candidate_price

(* ---- titles: a text is the sequence of its characters ---- *)
RECURSIVE LeftStrip(_)
LeftStrip(text) ==
    IF text # <<>> /\ Head(text) = " " THEN LeftStrip(Tail(text)) ELSE text

RECURSIVE RightStrip(_)
RightStrip(text) ==
    IF text # <<>> /\ text[Len(text)] = " "
    THEN RightStrip(SubSeq(text, 1, Len(text) - 1)) ELSE text

(* text.strip() *)
Strip(text) == RightStrip(LeftStrip(text))

(* if title and len(title) > 5 *)
LongEnoughTitle(title) == title # <<>> /\ Len(title) > 5

(* momo: the loop over title_selectors, from the value title has *)
RECURSIVE MomoTitleLoop(_, _)
MomoTitleLoop(found, title) ==
    IF found = <<>> THEN title
    ELSE IF ~Head(found).found THEN MomoTitleLoop(Tail(found), title)
    ELSE LET t == Strip(Head(found).text) IN
         IF LongEnoughTitle(t) THEN t ELSE MomoTitleLoop(Tail(found), t)

(* ---- the elements tried ---- *)
Letters(n) == [i \in 1..n |-> "a"]

TitleTexts ==
    {<<>>, <<" ", " ">>, Letters(4), Letters(5), <<" ">> \o Letters(5) \o <<" ">>,
     Letters(6), <<" ">> \o Letters(7)}

TitleFound ==
    {[found |-> FALSE, text |-> <<>>]} \cup [found : {TRUE}, text : TitleTexts]

TitleLists == UNION {[1..n -> TitleFound] : n \in 1..MaxSelectors}

ProductLink == <<"https:", "//", "cdn", "/", "prod">>
SrcSet == <<"//", "cdn", "/", "goods.jpg", " ", "1x", ",",
            "//", "cdn", "/", "goods.jpg", " ", "2x">>

SrcValues(site) ==
    {None, AboutBlank, <<"data:image">>,
     <<"https:", "//", "cdn", "/", "goods.jpg">>,
     <<"//", "cdn", "/", "goods.jpg">>,
     <<"/", "goods.jpg">>,
     <<"goods.jpg">>,
     <<"//", "cdn", "/", "icon.png">>,
     <<"https:", "//", "cdn", "/", "placeholder.png">>,
     IF site = "momo" THEN <<"img.momoshop.com.tw", "/", "goods.jpg">>
     ELSE <<"img.pchome.com.tw", "/", "goods.jpg">>}

LazyValues(site) ==
    {None, <<"//", "cdn", "/", "goods.jpg">>,
     IF site = "momo" THEN <<"https:", "//", "cdn", "/", "logo.png">> ELSE SrcSet}

Found(site) ==
    {NoSuchElement} \cup [found : {TRUE}, src : SrcValues(site), lazy : LazyValues(site)]

FoundLists(site) ==
    UNION {[1..n -> Found(site)] : n \in 1..MaxSelectors}

ElementAttributes(site) ==
    IF site = "momo" THEN {None}
    ELSE {None, <<"https:", "//", "cdn", "/", "logo.png">>, <<"/", "goods.jpg">>}

TitleLine == <<Word("iPhone"), Num(15)>>

PriceTexts ==
    {<<Word("$"), Num(1200)>>,
     <<Word("$"), Num(990)>>,
     <<Word("per-period"), Num(990)>>,
     <<Num(5), Word("%")>>,
     <<Word("$"), Num(50)>>,
     <<Num(1200), Num(990)>>,
     <<Word("sold")>>}

PriceTextLists == UNION {[1..n -> PriceTexts] : n \in 0..MaxPriceTexts}

OtherLines ==
    {<<>>, <<<<Word("$"), Num(1500)>>>>,
     <<<<Word("$"), Num(300), Word("/"), Word("month")>>>>}

SaleTexts(site) ==
    IF site = "momo" THEN {<<>>}
    ELSE {<<>>, <<Num(700), Word("NT")>>, <<Word("per-period"), Num(990)>>}

(* element.text, line by line *)
AllLines == <<TitleLine>> \o fld_price_texts \o fld_lines
                \o (IF fld_sale = <<>> THEN <<>> ELSE <<fld_sale>>)

FieldInit ==
    /\ ScrapeIdle /\ SimIdle /\ DlgIdle /\ RankIdle /\ SearchIdle /\ LoadIdle /\ SessIdle /\ LogIdle
    /\ fld_site \in Sites
    /\ fld_pc = "element"
    /\ fld_image_url = None /\ fld_url = ProductLink
    /\ fld_prices = <<>> /\ fld_installment_prices = <<>> /\ fld_price = 0
    /\ fld_title = <<>>
    /\ \/ /\ fld_task = "image"
          /\ fld_found \in FoundLists(fld_site)
          /\ fld_attr \in ElementAttributes(fld_site)
          /\ fld_price_texts = <<>> /\ fld_lines = <<>> /\ fld_sale = <<>>
          /\ fld_titles = <<>>
       \/ /\ fld_task = "title"
          /\ fld_site = "momo"
          /\ fld_titles \in TitleLists
          /\ fld_found = <<>> /\ fld_attr = None
          /\ fld_price_texts = <<>> /\ fld_lines = <<>> /\ fld_sale = <<>>
       \/ /\ fld_task = "price"
          /\ fld_titles = <<>>
          /\ fld_found = <<>> /\ fld_attr = None
          /\ fld_price_texts \in PriceTextLists
          /\ fld_lines \in OtherLines
          /\ fld_sale \in SaleTexts(fld_site)

MomoExtractPrice ==
    /\ fld_site = "momo" /\ fld_task = "price" /\ fld_pc = "element"
    /\ LET potential_prices == MomoPotentialPrices(fld_price_texts, Flatten(AllLines)) IN
           /\ fld_prices' = potential_prices
           /\ fld_installment_prices' = <<>>
           /\ fld_price' = MomoPriceOf(potential_prices)
    /\ fld_pc' = "done"
    /\ UNCHANGED <<fld_site, fld_task, fld_found, fld_attr, fld_image_url, fld_url,
                   fld_price_texts, fld_lines, fld_sale, fld_titles, fld_title>>
    /\ FieldFrame

PchomeExtractPrice ==
    /\ fld_site = "pchome" /\ fld_task = "price" /\ fld_pc = "element"
    /\ LET prices == PchomePrices(fld_price_texts, AllLines, fld_sale)
           installment_prices == PriceDivs(fld_price_texts, <<>>, <<>>).installment_prices
       IN  /\ fld_prices' = prices
           /\ fld_installment_prices' = installment_prices
           /\ fld_price' = PchomePriceOf(prices, installment_prices)
    /\ fld_pc' = "done"
    /\ UNCHANGED <<fld_site, fld_task, fld_found, fld_attr, fld_image_url, fld_url,
                   fld_price_texts, fld_lines, fld_sale, fld_titles, fld_title>>
    /\ FieldFrame

MomoExtractImage ==
    /\ fld_site = "momo" /\ fld_task = "image" /\ fld_pc = "element"
    /\ fld_image_url' = MomoImageLoop(fld_found, None)
    /\ fld_pc' = "done"
    /\ UNCHANGED <<fld_site, fld_task, fld_found, fld_attr, fld_url, fld_price_texts,
                   fld_lines, fld_sale, fld_prices, fld_installment_prices, fld_price,
                   fld_titles, fld_title>>
    /\ FieldFrame

PchomeExtractImage ==
    /\ fld_site = "pchome" /\ fld_task = "image" /\ fld_pc = "element"
    /\ LET r == PchomeImageLoop(fld_found, fld_url) IN
           /\ fld_image_url' = PchomeDataAttribute(PchomeAbsolute(r.image_url), fld_attr)
           /\ fld_url' = r.url
    /\ fld_pc' = "done"
    /\ UNCHANGED <<fld_site, fld_task, fld_found, fld_attr, fld_price_texts,
                   fld_lines, fld_sale, fld_prices, fld_installment_prices, fld_price,
                   fld_titles, fld_title>>
    /\ FieldFrame

MomoExtractTitle ==
    /\ fld_site = "momo" /\ fld_task = "title" /\ fld_pc = "element"
    /\ fld_title' = MomoTitleLoop(fld_titles, <<>>)
    /\ fld_pc' = IF fld_title' = <<>> THEN "skipped" ELSE "done"
    /\ UNCHANGED <<fld_site, fld_task, fld_found, fld_attr, fld_image_url, fld_url,
                   fld_price_texts, fld_lines, fld_sale, fld_prices,
                   fld_installment_prices, fld_price, fld_titles>>
    /\ FieldFrame

FieldNext ==
    \/ MomoExtractTitle
    \/ MomoExtractPrice
    \/ PchomeExtractPrice
    \/ MomoExtractImage
    \/ PchomeExtractImage

SpecFields == FieldInit /\ [][FieldNext]_vars

(* a url with a scheme and a host *)
IsAbsolute(u) == Len(u) >= 3 /\ u[1] = "https:" /\ u[2] = "//"

NonProductPatterns == {"placeholder", "logo", "banner", "icon", "tag", "data:image"}

(* C29: the image_url of an emitted record is empty, or it is an absolute   *)
(* url that spells out none of the non-product-image names (placeholder,    *)
(* logo, banner, icon, tag, data:image).                                    *)
C29_ImageUrlAbsoluteAndClean ==
    (fld_task = "image" /\ fld_pc = "done" /\ fld_url # None)
        => \/ fld_image_url = None
           \/ /\ IsAbsolute(fld_image_url)
              /\ ~Mentions(fld_image_url, NonProductPatterns)

(* C30: when an element offers several price candidates, the price of the   *)
(* emitted record is the least of the candidates that are not installment   *)
(* amounts, whenever there is one.                                          *)
C30_LeastNonInstallmentPrice ==
    (fld_task = "price" /\ fld_pc = "done" /\ fld_price > 0
     /\ Len(fld_prices \o fld_installment_prices) > 1)
        => LET valid == Range(fld_prices) \ Range(fld_installment_prices) IN
           valid # {} => /\ fld_price \in valid
                         /\ \A k \in valid : fld_price <= k

(* C31: the title of an emitted record is the text of the first title       *)
(* selector, in list order, whose text is longer than 5 characters; a text  *)
(* of 5 characters or fewer is never the title of an emitted record.        *)
C31_FirstLongTitle ==
    (fld_task = "title" /\ fld_pc = "done")
        => \E i \in DOMAIN fld_titles :
              /\ fld_titles[i].found
              /\ Len(Strip(fld_titles[i].text)) > 5
              /\ fld_title = Strip(fld_titles[i].text)
              /\ \A j \in 1..(i - 1) :
                    ~(fld_titles[j].found /\ Len(Strip(fld_titles[j].text)) > 5)

(* the element shows one price text and nothing else, the text holds one    *)
(* number and no installment keyword                                        *)
SoleCandidate ==
    /\ Len(fld_price_texts) = 1 /\ fld_lines = <<>> /\ fld_sale = <<>>
    /\ Len(FindDigits(fld_price_texts[1])) = 1
    /\ ~HasKeyword(fld_price_texts[1], LineKeywords)

(* C36: on both storefronts no value of 10 or less becomes the price of a   *)
(* record, and a candidate over 10 is not discarded: when it is the only    *)
(* candidate of its element it is the price.                                *)
C36_DiscardedExactlyUpToTen ==
    (fld_task = "price" /\ fld_pc = "done")
        => /\ fld_price > 0 => fld_price > 10
           /\ (SoleCandidate /\ FirstNumber(fld_price_texts[1]) > 10)
                 => fld_price = FirstNumber(fld_price_texts[1])

-----------------------------------------------------------------------------
(* log_search_query and the performance log of show_comparison_dialog.  A   *)
(* file is missing, holds text that is no JSON ("corrupt"), holds JSON that *)
(* is no list ("object"), or holds a list of entries.                       *)

LogFrame == UNCHANGED <<scrapeVars, simVars, dlgVars, rankVars, searchVars, loadVars, sessVars, fieldVars>>

Callers == 1..MaxCallers

CorruptFile == [kind |-> "corrupt", entries |-> <<>>]
ListFile(entries) == [kind |-> "list", entries |-> entries]

(* the files a call may find: entry 0 was written before the calls *)
LogFiles ==
    {MissingFile, CorruptFile, [kind |-> "object", entries |-> <<>>],
     ListFile(<<>>), ListFile(<<0>>)}

(* "if os.path.exists: try json.load except JSONDecodeError: logs = []       *)
(* else: logs = []"                                                          *)
ReadLogs(file) ==
    CASE file.kind = "list" -> [islist |-> TRUE, items |-> file.entries]
      [] file.kind = "object" -> [islist |-> FALSE, items |-> <<>>]
      [] OTHER -> NoLogs

(* "except Exception as e": what the handler around the logging catches *)
Swallowed_JsonOnly(exc) == exc = "JSONDecodeError"
Swallowed(exc) == exc \in {"OSError", "AttributeError", "JSONDecodeError"}

(* where a call is after an exception left the with block *)
AfterException(exc) == IF Swallowed(exc) THEN "returned" ELSE "propagated"

(* "log_lock = threading.Lock()" is a top-level statement of the script,    *)
(* and the script is run from its first line for every session and every    *)
(* rerun, each run in a thread of the one server process with globals of    *)
(* its own.  log_search_query is called once per run, from the thread of    *)
(* the run, so concurrent calls belong to different runs: the lock object   *)
(* a call uses is the one its own run has made.                             *)
LockOf(t) == t

(* "with log_lock": the lock can be taken when no thread holds it *)
LockFree(holder) == holder = 0

LogInit ==
    /\ log_file \in LogFiles
    /\ log_initial = log_file
    /\ log_holder = [l \in Callers |-> 0]
    /\ log_pc = [t \in Callers |-> "call"]
    /\ log_logs = [t \in Callers |-> NoLogs]
    /\ log_failed = FALSE
    /\ perf_file \in LogFiles
    /\ perf_pc = "log" /\ perf_failed = FALSE
    /\ ScrapeIdle /\ SimIdle /\ DlgIdle /\ RankIdle /\ SearchIdle /\ LoadIdle /\ SessIdle /\ FieldIdle

(* "with log_lock:" *)
LogAcquire(t) ==
    /\ log_pc[t] = "call" /\ LockFree(log_holder[LockOf(t)])
    /\ log_holder' = [log_holder EXCEPT ![LockOf(t)] = t]
    /\ log_pc' = [log_pc EXCEPT ![t] = "read"]
    /\ UNCHANGED <<log_file, log_logs, log_failed, log_initial,
                   perf_file, perf_pc, perf_failed>>
    /\ LogFrame

(* the lock as an exception leaves the with block: released by its holder *)
Released(t) == [log_holder EXCEPT ![LockOf(t)] = 0]

(* the file is read; open() of an existing file may fail *)
LogRead(t) ==
    /\ log_pc[t] = "read"
    /\ \E ioerror \in BOOLEAN :
          IF ioerror /\ log_file.kind # "missing"
          THEN /\ log_pc' = [log_pc EXCEPT ![t] = AfterException("OSError")]
               /\ log_holder' = Released(t)
               /\ log_failed' = TRUE
               /\ UNCHANGED log_logs
          ELSE /\ log_logs' = [log_logs EXCEPT ![t] = ReadLogs(log_file)]
               /\ log_pc' = [log_pc EXCEPT ![t] = "append"]
               /\ log_failed' = (log_failed \/ log_file.kind \in {"corrupt", "object"})
               /\ UNCHANGED log_holder
    /\ UNCHANGED <<log_file, log_initial, perf_file, perf_pc, perf_failed>>
    /\ LogFrame

(* logs.append(log_entry): the entry of call t is t *)
LogAppend(t) ==
    /\ log_pc[t] = "append"
    /\ IF log_logs[t].islist
       THEN /\ log_logs' = [log_logs EXCEPT ![t].items = Append(@, t)]
            /\ log_pc' = [log_pc EXCEPT ![t] = "write"]
            /\ UNCHANGED log_holder
       ELSE /\ log_pc' = [log_pc EXCEPT ![t] = AfterException("AttributeError")]
            /\ log_holder' = Released(t)
            /\ UNCHANGED log_logs
    /\ UNCHANGED <<log_file, log_failed, log_initial, perf_file, perf_pc, perf_failed>>
    /\ LogFrame

(* open(log_file, 'w') and json.dump, then the end of the with block; a     *)
(* failed write leaves the file as it was or cut short                      *)
LogWrite(t) ==
    /\ log_pc[t] = "write"
    /\ \E outcome \in {"written", "unopened", "cut"} :
          /\ log_file' = CASE outcome = "written" -> ListFile(log_logs[t].items)
                           [] outcome = "unopened" -> log_file
                           [] OTHER -> CorruptFile
          /\ log_pc' = [log_pc EXCEPT ![t] =
                           IF outcome = "written" THEN "returned"
                           ELSE AfterException("OSError")]
          /\ log_failed' = (log_failed \/ outcome # "written")
    /\ log_holder' = Released(t)
    /\ UNCHANGED <<log_logs, log_initial, perf_file, perf_pc, perf_failed>>
    /\ LogFrame

(* the dialog writes its performance entry: read, append, write, inside     *)
(* "try ... except Exception"                                               *)
PerfLog ==
    /\ perf_pc = "log"
    /\ \E outcome \in {"written", "unread", "unopened", "cut"} :
          LET performance_logs == ReadLogs(perf_file)
              exc == IF outcome # "written" THEN "OSError"
                     ELSE IF ~performance_logs.islist THEN "AttributeError"
                     ELSE "none"
          IN  /\ outcome = "unread" => perf_file.kind # "missing"
              /\ perf_file' = IF exc = "none"
                              THEN ListFile(Append(performance_logs.items, 1))
                              ELSE IF outcome = "cut" THEN CorruptFile ELSE perf_file
              /\ perf_failed' = (exc # "none" \/ perf_file.kind = "corrupt")
              /\ perf_pc' = IF exc = "none" THEN "rank" ELSE
                            IF AfterException(exc) = "returned" THEN "rank" ELSE "propagated"
    /\ UNCHANGED <<log_file, log_holder, log_pc, log_logs, log_failed, log_initial>>
    /\ LogFrame

(* quicksort_by_price and the display of the ranked results *)
PerfRank ==
    /\ perf_pc = "rank"
    /\ perf_pc' = "shown"
    /\ UNCHANGED <<log_file, log_holder, log_pc, log_logs, log_failed, log_initial,
                   perf_file, perf_failed>>
    /\ LogFrame

LogNext ==
    \/ \E t \in Callers : LogAcquire(t)
    \/ \E t \in Callers : LogRead(t)
    \/ \E t \in Callers : LogAppend(t)
    \/ \E t \in Callers : LogWrite(t)
    \/ PerfLog
    \/ PerfRank

SpecLog == LogInit /\ [][LogNext]_vars

(* C38: a failure while the search log or the performance log is read or    *)
(* written never leaves the logging code as an exception: every             *)
(* log_search_query call returns, and after the performance log the dialog  *)
(* goes on to rank and show its results.                                    *)
C38_LogFailuresSwallowed ==
    /\ \A t \in Callers : log_pc[t] # "propagated"
    /\ perf_pc # "propagated"
    /\ (perf_pc \in {"rank", "shown"} /\ ~perf_failed) => perf_file.kind = "list"

(* every call has returned although one met a failure, and the results are  *)
(* shown after the performance log failed                                   *)
C38_Witness ==
    /\ \A t \in Callers : log_pc[t] = "returned"
    /\ log_failed /\ log_file = CorruptFile
    /\ perf_pc = "shown" /\ perf_failed

RECURSIVE Occurrences(_, _)
Occurrences(entries, e) ==
    IF entries = <<>> THEN 0
    ELSE (IF Head(entries) = e THEN 1 ELSE 0) + Occurrences(Tail(entries), e)

(* C39: when the concurrent calls of several threads on a log file that is  *)
(* missing or holds a list have all returned without an I/O error, the file *)
(* holds the entries it held before, in their order, and after them one     *)
(* entry of each call.                                                      *)
C39_NoLostLogEntry ==
    (/\ \A t \in Callers : log_pc[t] = "returned"
     /\ log_initial.kind \in {"list", "missing"} /\ ~log_failed)
        => /\ log_file.kind = "list"
           /\ Len(log_file.entries) = Len(log_initial.entries) + MaxCallers
           /\ SubSeq(log_file.entries, 1, Len(log_initial.entries)) = log_initial.entries
           /\ \A t \in Callers : Occurrences(log_file.entries, t) = 1

=============================================================================
